---- MODULE Spec2Model ----
(***************************************************************************)
(* Storm-object detection, tracking and motion pipeline of SkyPulse.       *)
(*                                                                         *)
(* Spec        the detect/track cycle: run_storm_detection                 *)
(*             (services/storms.py) and detect_and_track_mrms              *)
(*             (compute/mrms_objects.py) run by two callers against the    *)
(*             cache directory, with track_objects (compute/storms.py).    *)
(*                                                                         *)
(* Centroids lie on one meridian; a latitude is given as the arc length in *)
(* km from a reference parallel, so that haversine_km between two          *)
(* centroids is the absolute difference of their latitudes.  Speeds are    *)
(* kept in 1/1000 km/h, forecast positions in metres.                      *)
(***************************************************************************)
EXTENDS Integers, Sequences, FiniteSets, TLC

\* ---------------------------------------------------------------- bounds
MaxObjs == 2        \* objects a detection pass returns at most
MaxCalls == 3       \* invocations started in one behaviour
MaxNow == 120       \* last minute of the wall clock
RaceObjs == 1       \* objects per detection pass when two callers overlap
RaceCalls == 3      \* invocations started in one behaviour of SpecRace
GridCols == 3       \* columns of the gridded field of SpecDetect
MaxMinPixels == 2   \* largest min_pixels of SpecDetect
MotionObjs == 2     \* objects detected at most in SpecMotion
BoxLonMax == 10     \* easternmost grid longitude of SpecBoundary, degrees

Procs == {1, 2}                 \* the callers (UI sessions / reruns)
RaceLats == {0, 90}             \* centroid latitudes when two callers overlap
Lats == {0, 90, 150}            \* centroid latitudes, km of arc
Areas == {100}                  \* object areas, km2 (perfect squares)
VMax == {7}                     \* object maximum intensity
TickSet == {60}                 \* minutes the clock advances by

\* ------------------------------------------------------- program constants
DT_MIN_CLAMP == 5
DT_MAX_CLAMP == 120
KyKm == 111
EarthRadius10m == 11119   \* 6371 km * pi / 180, per degree, in 10 m
MaxMatchKm == 60
DefaultDt == 60
KNbr == 6           \* k of the scorers
BallRadius == 1     \* rad, degrees
ScoreScale == 120   \* scores are kept in 1/120 of a unit per degree

\* Optional values: <<>> is None, <<v>> is the value v.
None == <<>>
Some(v) == <<v>>
IsNone(o) == o = <<>>
IsSome(o) == o # <<>>
Get(o) == o[1]

Abs(x) == IF x < 0 THEN -x ELSE x
Min(a, b) == IF a <= b THEN a ELSE b
Max(a, b) == IF a >= b THEN a ELSE b

\* round(n/d) to the nearest integer, ties to even (Python's round)
RoundDiv(n, d) ==
  LET q == n \div d
      r == n % d
  IN  IF 2 * r < d THEN q
      ELSE IF 2 * r > d THEN q + 1
      ELSE IF q % 2 = 0 THEN q ELSE q + 1

RECURSIVE Isqrt(_)
Isqrt(n) == IF n < 4 THEN (IF n = 0 THEN 0 ELSE 1)
            ELSE LET s == 2 * Isqrt(n \div 4)
                 IN  IF (s + 1) * (s + 1) <= n THEN s + 1 ELSE s

\* ------------------------------------------------------------- geo maths
\* haversine_km for two points of the same meridian: R * |dphi|
haversine_km(lat1, lat2) == Abs(lat2 - lat1)

\* _bearing_deg on a meridian: 0 northward (and for identical points,
\* atan2(0, 0) = 0), 180 southward
bearing_deg(lat1, lat2) == IF lat2 >= lat1 THEN 0 ELSE 180

\* _circ_ema_deg for angles in {0, 180, 360}: the blended vector lies on
\* the north-south axis, x = (1-a) cos p + a cos n with a = 0.30, and
\* (degrees(atan2(y, x)) + 360) % 360 is 0 or 180
circ_ema_deg(prev_deg, new_deg) ==
  LET c(a) == IF a \in {0, 360} THEN 1 ELSE -1
      x == 70 * c(prev_deg) + 30 * c(new_deg)
  IN  IF x > 0 THEN 0 ELSE 180

\* _dest_point along the meridian; lat in km, dist in metres, result in metres
dest_point(lat, bearing, dist_m) ==
  IF bearing = 0 THEN lat * 1000 + dist_m ELSE lat * 1000 - dist_m

\* --------------------------------------------------------------- tracker
Digit(d) == <<"0", "1", "2", "3", "4", "5", "6", "7", "8", "9">>[d + 1]

\* MintId numbering from 0: f"S{i:02d}" under enumerate(current)
MintIdZeroBased(i) == "S" \o Digit(((i - 1) \div 10) % 10) \o Digit((i - 1) % 10)

\* f"S{i:02d}"
MintId(i) == "S" \o Digit((i \div 10) % 10) \o Digit(i % 10)

\* ScanPrev with the comparison turned round: keeps the farthest candidate
RECURSIVE ScanPrevFarthest(_, _, _, _, _)
ScanPrevFarthest(lat, prev, used, j, best) ==
  IF j > Len(prev) THEN best
  ELSE IF j \in used THEN ScanPrevFarthest(lat, prev, used, j + 1, best)
  ELSE LET d == Abs(prev[j].lat - lat)
       IN  IF best = <<>> \/ d > best[2]
           THEN ScanPrevFarthest(lat, prev, used, j + 1, <<j, d>>)
           ELSE ScanPrevFarthest(lat, prev, used, j + 1, best)

\* the inner loop of track_objects: nearest not-yet-used previous object,
\* the first one on ties; best is None or <<j, d>>
RECURSIVE ScanPrev(_, _, _, _, _)
ScanPrev(lat, prev, used, j, best) ==
  IF j > Len(prev) THEN best
  ELSE IF j \in used THEN ScanPrev(lat, prev, used, j + 1, best)
  ELSE LET d == haversine_km(lat, prev[j].lat)
       IN  IF best = <<>> \/ d < best[2]
           THEN ScanPrev(lat, prev, used, j + 1, <<j, d>>)
           ELSE ScanPrev(lat, prev, used, j + 1, best)

\* MatchOf with the gate exclusive
MatchOfStrictGate(lat, prev, used) ==
  LET best == ScanPrev(lat, prev, used, 1, <<>>)
  IN  IF best # <<>> /\ best[2] < MaxMatchKm THEN best[1] ELSE 0

\* the gate of track_objects: the index of the previous object adopted by
\* a current object at lat, 0 when a new ID is minted
MatchOf(lat, prev, used) ==
  LET best == ScanPrev(lat, prev, used, 1, <<>>)
  IN  IF best # <<>> /\ best[2] <= MaxMatchKm THEN best[1] ELSE 0

\* the outer loop of track_objects: for each current object the matched
\* previous index (0: none)
RECURSIVE TrackMatches(_, _, _, _)
TrackMatches(cur, prev, i, used) ==
  IF i > Len(cur) THEN <<>>
  ELSE LET j == MatchOf(cur[i].lat, prev, used)
       IN  <<j>> \o TrackMatches(cur, prev, i + 1,
                                 IF j = 0 THEN used ELSE used \cup {j})

track_objects(cur, prev) ==
  LET m == TrackMatches(cur, prev, 1, {})
  IN  [i \in 1..Len(cur) |->
         [id   |-> IF m[i] # 0 THEN prev[m[i]].id ELSE MintId(i),
          lat  |-> cur[i].lat,
          area |-> cur[i].area,
          vmax |-> cur[i].vmax]]

\* to_dicts(track_objects(...)) of detect_and_track_mrms: the StormObject
\* fields only
to_dicts(objs) == objs

\* ------------------------------------------------------ motion estimator
\* prev_by_id = {str(o["id"]): o for o in prev_objs}: a later object of the
\* same id replaces an earlier one; 0 when the id is not a key
RECURSIVE prev_by_id(_, _, _)
prev_by_id(prev, id, j) ==
  IF j = 0 THEN 0
  ELSE IF prev[j].id = id THEN j
  ELSE prev_by_id(prev, id, j - 1)

\* dt_minutes without the two clamps
dt_minutes_unclamped(prev_payload, t_now) ==
  IF IsNone(prev_payload) \/ IsNone(Get(prev_payload).ts) THEN None
  ELSE Some(t_now - Get(Get(prev_payload).ts))

\* dt_minutes of run_storm_detection: None without a previous payload or
\* without a timestamp that parses, else the elapsed minutes, not below 0,
\* clamped to [5, 120]
dt_minutes(prev_payload, t_now) ==
  IF IsNone(prev_payload) \/ IsNone(Get(prev_payload).ts) THEN None
  ELSE Some(Max(DT_MIN_CLAMP,
                Min(DT_MAX_CLAMP,
                    Max(t_now - Get(Get(prev_payload).ts), 0))))

\* ema_speed with the weights of the two terms exchanged
ema_speed_swapped(prev_speed, speed0) ==
  (30 * prev_speed + 70 * speed0) \div 100

\* (1 - EMA_ALPHA) * prev_speed + EMA_ALPHA * speed_kmh, in 1/1000 km/h
ema_speed(prev_speed, speed0) == (70 * prev_speed + 30 * speed0) \div 100

\* a confidence that looks at the distance only
ConfidenceDistOnly(dist_km, dt) ==
  IF dist_km <= 30 THEN "high" ELSE IF dist_km <= 60 THEN "med" ELSE "low"

\* motion_confidence; dist in km, dt in minutes
Confidence(dist_km, dt) ==
  IF dist_km <= 30 /\ 15 <= dt /\ dt <= 90 THEN "high"
  ELSE IF dist_km <= 60 /\ 10 <= dt /\ dt <= 110 THEN "med"
  ELSE "low"

\* a cone whose speed term is not capped at 60
ConeSpeedUncapped(area_km2, speed_m, conf, base_km, w10) ==
  LET size_term  == Min(Isqrt(area_km2) * 15000, 4000000)
      speed_term == speed_m * 25
      base == base_km * 100000 + (w10 * (size_term + speed_term)) \div 10
      f == IF conf = "med" THEN 115 ELSE IF conf = "low" THEN 135 ELSE 100
  IN  RoundDiv(base * f, 1000000)

\* the cone heuristic: area in km2, speed in 1/1000 km/h, base and offset
\* weights as in base30 / base60; the result in 1/10 km (round(.., 1); a
\* value exactly between two tenths goes to the even one here, in the code
\* to the side its binary approximation falls on)
Cone(area_km2, speed_m, conf, base_km, w10) ==
  LET size_term  == Min(Isqrt(area_km2) * 15000, 4000000)   \* 1e-5 km
      speed_term == Min(speed_m * 25, 6000000)              \* 1e-5 km
      base == base_km * 100000 + (w10 * (size_term + speed_term)) \div 10
      f == IF conf = "med" THEN 115 ELSE IF conf = "low" THEN 135 ELSE 100
  IN  RoundDiv(base * f, 1000000)

\* defaults that leave a cone radius behind
NoMotionStaleCone(o) ==
  [id |-> o.id, lat |-> o.lat, area |-> o.area, vmax |-> o.vmax,
   motion |-> None, forecast_30min |-> None, forecast_60min |-> None,
   cone_30_km |-> Some(200), cone_60_km |-> None, motion_confidence |-> "low"]

\* the defaults every object starts the loop body with
NoMotion(o) ==
  [id |-> o.id, lat |-> o.lat, area |-> o.area, vmax |-> o.vmax,
   motion |-> None, forecast_30min |-> None, forecast_60min |-> None,
   cone_30_km |-> None, cone_60_km |-> None, motion_confidence |-> "low"]

\* the body of the loop over out_objs in run_storm_detection
EnrichObj(o, prev_objs, dtm) ==
  LET j == prev_by_id(prev_objs, o.id, Len(prev_objs))
  IN  IF j = 0 THEN NoMotion(o)
      ELSE
      LET po   == prev_objs[j]
          lat1 == po.lat
          lat2 == o.lat
          dt   == IF IsSome(dtm) /\ Get(dtm) > 0 THEN Get(dtm) ELSE DefaultDt
          dist_km == haversine_km(lat1, lat2)
          raw_bearing == bearing_deg(lat1, lat2)
          raw_speed == (dist_km * 60000) \div dt            \* 1/1000 km/h
          has_prev == IsSome(po.motion)
          prev_speed == IF has_prev THEN Get(po.motion).speed_kmh * 100 ELSE 0
          prev_bearing == IF has_prev THEN Get(po.motion).bearing_deg ELSE 0
          rerun == IsSome(dtm) /\ Get(dtm) <= DT_MIN_CLAMP /\ has_prev
          speed0 == IF rerun THEN prev_speed ELSE raw_speed
          bearing0 == IF rerun THEN prev_bearing ELSE raw_bearing
          speed == IF has_prev THEN ema_speed(prev_speed, speed0)
                   ELSE speed0
          bearing == IF has_prev THEN circ_ema_deg(prev_bearing, bearing0)
                     ELSE bearing0
          conf == Confidence(dist_km, dt)
          \* speed_kmh is None only if dt <= 0 and the bearing is never None:
          \* the `continue` before the forecasts is taken only if dt <= 0
          known == dt > 0
      IN  [id |-> o.id, lat |-> o.lat, area |-> o.area, vmax |-> o.vmax,
           motion |-> Some([from |-> lat1, to |-> lat2, dist_km |-> dist_km,
                            bearing_deg |-> bearing,
                            speed_kmh |-> RoundDiv(speed, 100),   \* 1/10 km/h
                            dt_min |-> dt]),
           forecast_30min |-> IF known
                              THEN Some(dest_point(lat2, bearing, speed \div 2))
                              ELSE None,
           forecast_60min |-> IF known
                              THEN Some(dest_point(lat2, bearing, speed))
                              ELSE None,
           cone_30_km |-> IF known THEN Some(Cone(o.area, speed, conf, 20, 5))
                          ELSE None,
           cone_60_km |-> IF known THEN Some(Cone(o.area, speed, conf, 35, 8))
                          ELSE None,
           motion_confidence |-> conf]

\* lines 86-189 of run_storm_detection: track, then enrich every object
Enrich(cur, prev_payload, t_now) ==
  LET prev_objs == IF IsNone(prev_payload) THEN <<>>
                   ELSE Get(prev_payload).objects
      tracked == track_objects(cur, prev_objs)
      dtm == dt_minutes(prev_payload, t_now)
  IN  [i \in 1..Len(tracked) |-> EnrichObj(tracked[i], prev_objs, dtm)]

\* lines 45-47 of detect_and_track_mrms
TrackOnly(cur, prev_payload) ==
  LET prev_objs == IF IsNone(prev_payload) THEN <<>>
                   ELSE Get(prev_payload).objects
  IN  to_dicts(track_objects(cur, prev_objs))

\* ------------------------------------------------------------------ state
VARIABLES
  entry,       \* the entry point the callers use: "storm" | "mrms"
  fieldFile,   \* the gridded field file (.npz) exists in the cache
  trackFile,   \* the persisted tracking state of the entry point
  now,         \* wall clock, minutes
  calls,       \* invocations started so far
  pc,          \* per caller: "idle" | "read" | "write" | "done" | "raised"
  cur_raw,     \* per caller: the detector's result
  prev_payload,\* per caller: what the read of the track file returned
  out_objs,    \* per caller: the objects of the payload being built
  payload,     \* per caller: the payload written and returned
  nread,       \* per caller: reads of the track file in this invocation
  nwrite,      \* per caller: writes of the track file in this invocation
  ver,         \* writes of the track file so far (history)
  readVer,     \* per caller: ver when it read the track file (history)
  lastWriter,  \* the caller that wrote the track file last, 0: none (history)
  \* detect_objects (SpecDetect)
  composite_2d,\* the gridded field, [row, column] -> cell value
  threshold,   \* detection threshold
  min_pixels,  \* minimum region size
  det_objs,    \* the result of detect_objects
  det_tracked, \* the objects tracked and persisted from det_objs
  dpc,         \* "input" | "done" | "persisted"
  \* impact_hits (SpecImpact)
  storms,      \* the tracked objects handed to impact_hits
  targets,     \* the named point targets
  radius_km,   \* the impact radius
  hits,        \* the result of impact_hits
  ipc,         \* "input" | "done"
  \* the motion estimator on its own (SpecMotion)
  m_prev,      \* the previous payload read, or None
  m_cur,       \* the detector's result
  m_now,       \* the wall clock when the timestamps are compared
  m_out,       \* the objects of the payload built
  mpc,         \* "input" | "done"
  \* boundary candidates and boundary grid (SpecBoundary)
  metar_df,    \* the station table
  top_n,       \* the number of candidates asked for
  bres,        \* the outcome of compute_boundary_candidates
  bgrid,       \* the outcome of grid_boundary_field
  bpc          \* "input" | "scored" | "raised" | "done"

trackVars == <<entry, fieldFile, trackFile, now, calls, pc, cur_raw,
               prev_payload, out_objs, payload, nread, nwrite, ver, readVer,
               lastWriter>>
detectVars == <<composite_2d, threshold, min_pixels, det_objs, det_tracked,
                dpc>>
impactVars == <<storms, targets, radius_km, hits, ipc>>
motionVars == <<m_prev, m_cur, m_now, m_out, mpc>>
boundaryVars == <<metar_df, top_n, bres, bgrid, bpc>>
vars == <<trackVars, detectVars, impactVars, motionVars, boundaryVars>>

\* the variables of the other specifications at rest
TrackIdle == /\ entry = "off" /\ fieldFile = FALSE
             /\ trackFile = [st |-> "absent", ts |-> <<>>, objects |-> <<>>]
             /\ now = 0 /\ calls = 0
             /\ pc = [p \in Procs |-> "off"]
             /\ cur_raw = [p \in Procs |-> <<>>]
             /\ prev_payload = [p \in Procs |-> <<>>]
             /\ out_objs = [p \in Procs |-> <<>>]
             /\ payload = [p \in Procs |-> <<>>]
             /\ nread = [p \in Procs |-> 0]
             /\ nwrite = [p \in Procs |-> 0]
             /\ ver = 0
             /\ readVer = [p \in Procs |-> 0]
             /\ lastWriter = 0
DetectIdle == /\ composite_2d = <<>> /\ threshold = 0 /\ min_pixels = 0
              /\ det_objs = <<>> /\ det_tracked = <<>> /\ dpc = "off"
ImpactIdle == /\ storms = <<>> /\ targets = <<>> /\ radius_km = 0
              /\ hits = <<>> /\ ipc = "off"
MotionIdle == /\ m_prev = <<>> /\ m_cur = <<>> /\ m_now = 0
              /\ m_out = <<>> /\ mpc = "off"
BoundaryIdle == /\ metar_df = <<>> /\ top_n = 0 /\ bres = <<>>
                /\ bgrid = <<>> /\ bpc = "off"

\* the track file: absent, unreadable (not JSON), or a JSON payload; ts is
\* updated_at_utc in minutes, None when the key is missing or does not parse
Absent == [st |-> "absent", ts |-> None, objects |-> <<>>]
Unreadable == [st |-> "unreadable", ts |-> None, objects |-> <<>>]
Payload(t, objs) == [st |-> "json", ts |-> Some(t), objects |-> objs]

\* what detect_objects can return: up to MaxObjs raw objects with pairwise
\* distinct centroids, in its (max, area)-descending order
Sorted(c) == \A i \in 1..(Len(c) - 1) :
               \/ c[i].vmax > c[i + 1].vmax
               \/ c[i].vmax = c[i + 1].vmax /\ c[i].area >= c[i + 1].area
DetectLists(lats, n_max) ==
  {c \in UNION {[1..n -> [lat : lats, area : Areas, vmax : VMax]] : n \in 0..n_max} :
     /\ Sorted(c)
     /\ \A i, k \in 1..Len(c) : i # k => c[i].lat # c[k].lat}
CurLists == DetectLists(Lats, MaxObjs)
RaceLists == DetectLists(RaceLats, RaceObjs)

\* _read_prev_payload, and the same lines of detect_and_track_mrms: None
\* when the file does not exist or does not parse
read_prev_payload(f) == IF f.st = "json" THEN Some(f) ELSE None

Init ==
  /\ DetectIdle /\ ImpactIdle /\ MotionIdle /\ BoundaryIdle
  /\ entry \in {"storm", "mrms"}
  /\ fieldFile = FALSE
  /\ trackFile \in {Absent, Unreadable}
  /\ now = 0
  /\ calls = 0
  /\ pc = [p \in Procs |-> "idle"]
  /\ cur_raw = [p \in Procs |-> <<>>]
  /\ prev_payload = [p \in Procs |-> None]
  /\ out_objs = [p \in Procs |-> <<>>]
  /\ payload = [p \in Procs |-> None]
  /\ nread = [p \in Procs |-> 0]
  /\ nwrite = [p \in Procs |-> 0]
  /\ ver = 0
  /\ readVer = [p \in Procs |-> 0]
  /\ lastWriter = 0

\* the model update saves the gridded fields (services/model.py)
UpdateFields ==
  /\ UNCHANGED <<detectVars, impactVars, motionVars, boundaryVars>>
  /\ fieldFile = FALSE
  /\ fieldFile' = TRUE
  /\ UNCHANGED <<entry, trackFile, now, calls, pc, cur_raw, prev_payload,
                 out_objs, payload, nread, nwrite, ver, readVer, lastWriter>>

\* time passes
Tick ==
  /\ UNCHANGED <<detectVars, impactVars, motionVars, boundaryVars>>
  /\ \E d \in TickSet : now + d <= MaxNow /\ now' = now + d
  /\ UNCHANGED <<entry, fieldFile, trackFile, calls, pc, cur_raw, prev_payload,
                 out_objs, payload, nread, nwrite, ver, readVer, lastWriter>>

\* StartMissing with the existence check after the read of the track file
StartMissingAfterRead(p, max_calls) ==
  /\ UNCHANGED <<detectVars, impactVars, motionVars, boundaryVars>>
  /\ pc[p] = "idle" /\ calls < max_calls
  /\ ~fieldFile
  /\ calls' = calls + 1
  /\ pc' = [pc EXCEPT ![p] = "raised"]
  /\ cur_raw' = [cur_raw EXCEPT ![p] = <<>>]
  /\ prev_payload' = [prev_payload EXCEPT ![p] =
                        IF trackFile.st = "json" THEN Some(trackFile) ELSE None]
  /\ out_objs' = [out_objs EXCEPT ![p] = <<>>]
  /\ nread' = [nread EXCEPT ![p] = 1]
  /\ nwrite' = [nwrite EXCEPT ![p] = 0]
  /\ UNCHANGED <<entry, fieldFile, trackFile, now, payload, ver, readVer,
                 lastWriter>>

\* entry of the call with the field file missing: raise FileNotFoundError
StartMissing(p, max_calls) ==
  /\ UNCHANGED <<detectVars, impactVars, motionVars, boundaryVars>>
  /\ pc[p] = "idle" /\ calls < max_calls
  /\ ~fieldFile
  /\ calls' = calls + 1
  /\ pc' = [pc EXCEPT ![p] = "raised"]
  /\ cur_raw' = [cur_raw EXCEPT ![p] = <<>>]
  /\ prev_payload' = [prev_payload EXCEPT ![p] = None]
  /\ out_objs' = [out_objs EXCEPT ![p] = <<>>]
  /\ nread' = [nread EXCEPT ![p] = 0]
  /\ nwrite' = [nwrite EXCEPT ![p] = 0]
  /\ UNCHANGED <<entry, fieldFile, trackFile, now, payload, ver, readVer,
                 lastWriter>>

\* entry of the call with the field file present: load it and detect
StartDetect(p, lists, max_calls) ==
  /\ UNCHANGED <<detectVars, impactVars, motionVars, boundaryVars>>
  /\ pc[p] = "idle" /\ calls < max_calls
  /\ fieldFile
  /\ calls' = calls + 1
  /\ \E c \in lists : cur_raw' = [cur_raw EXCEPT ![p] = c]
  /\ pc' = [pc EXCEPT ![p] = "read"]
  /\ prev_payload' = [prev_payload EXCEPT ![p] = None]
  /\ out_objs' = [out_objs EXCEPT ![p] = <<>>]
  /\ nread' = [nread EXCEPT ![p] = 0]
  /\ nwrite' = [nwrite EXCEPT ![p] = 0]
  /\ UNCHANGED <<entry, fieldFile, trackFile, now, payload, ver, readVer,
                 lastWriter>>

\* read the previous payload, track, and (run_storm_detection) add motion
ReadPrev(p) ==
  /\ UNCHANGED <<detectVars, impactVars, motionVars, boundaryVars>>
  /\ pc[p] = "read"
  /\ LET pp == read_prev_payload(trackFile)
     IN  /\ prev_payload' = [prev_payload EXCEPT ![p] = pp]
         /\ out_objs' = [out_objs EXCEPT ![p] =
                           IF entry = "storm" THEN Enrich(cur_raw[p], pp, now)
                           ELSE TrackOnly(cur_raw[p], pp)]
  /\ nread' = [nread EXCEPT ![p] = nread[p] + 1]
  /\ readVer' = [readVer EXCEPT ![p] = ver]
  /\ pc' = [pc EXCEPT ![p] = "write"]
  /\ UNCHANGED <<entry, fieldFile, trackFile, now, calls, cur_raw, payload,
                 nwrite, ver, lastWriter>>

\* WriteText that creates the file but never replaces a readable one
WriteTextExclusive(old, data) == IF old.st = "json" THEN old ELSE data

\* what write_text leaves in the track file
WriteText(old, data) == data

\* build the payload and write it over the track file
WritePayload(p) ==
  /\ UNCHANGED <<detectVars, impactVars, motionVars, boundaryVars>>
  /\ pc[p] = "write"
  /\ payload' = [payload EXCEPT ![p] = Some(Payload(now, out_objs[p]))]
  /\ trackFile' = WriteText(trackFile, Payload(now, out_objs[p]))
  /\ nwrite' = [nwrite EXCEPT ![p] = nwrite[p] + 1]
  /\ ver' = ver + 1
  /\ lastWriter' = p
  /\ pc' = [pc EXCEPT ![p] = "done"]
  /\ UNCHANGED <<entry, fieldFile, now, calls, cur_raw, prev_payload,
                 out_objs, nread, readVer>>

\* the call has returned or raised; the caller may call again
Return(p) ==
  /\ UNCHANGED <<detectVars, impactVars, motionVars, boundaryVars>>
  /\ pc[p] \in {"done", "raised"}
  /\ pc' = [pc EXCEPT ![p] = "idle"]
  /\ cur_raw' = [cur_raw EXCEPT ![p] = <<>>]
  /\ prev_payload' = [prev_payload EXCEPT ![p] = None]
  /\ out_objs' = [out_objs EXCEPT ![p] = <<>>]
  /\ payload' = [payload EXCEPT ![p] = None]
  /\ nread' = [nread EXCEPT ![p] = 0]
  /\ nwrite' = [nwrite EXCEPT ![p] = 0]
  /\ readVer' = [readVer EXCEPT ![p] = 0]
  /\ UNCHANGED <<entry, fieldFile, trackFile, now, calls, ver, lastWriter>>

\* one caller, one invocation after the other
Next ==
  \/ UpdateFields
  \/ Tick
  \/ StartMissing(1, MaxCalls)
  \/ StartDetect(1, CurLists, MaxCalls)
  \/ ReadPrev(1)
  \/ WritePayload(1)
  \/ Return(1)

Spec == Init /\ [][Next]_vars

\* two callers whose invocations may overlap
NextRace ==
  \/ UpdateFields
  \/ Tick
  \/ \E p \in Procs : StartMissing(p, RaceCalls)
  \/ \E p \in Procs : StartDetect(p, RaceLists, RaceCalls)
  \/ \E p \in Procs : ReadPrev(p)
  \/ \E p \in Procs : WritePayload(p)
  \/ \E p \in Procs : Return(p)

SpecRace == Init /\ [][NextRace]_vars

\* ================================================================ claims
\* a caller whose track_objects call has run: cur_raw, prev_payload and
\* out_objs hold its inputs and its result
Tracked(p) == pc[p] \in {"write", "done"}
PrevObjs(p) == IF IsNone(prev_payload[p]) THEN <<>>
               ELSE Get(prev_payload[p]).objects
Matches(p) == TrackMatches(cur_raw[p], PrevObjs(p), 1, {})
UsedBefore(p, i) == {Matches(p)[k] : k \in 1..(i - 1)} \ {0}
IdS(i) == <<"S01", "S02", "S03", "S04", "S05">>[i]
AllNone(o) == /\ o.motion = None
              /\ o.forecast_30min = None /\ o.forecast_60min = None
              /\ o.cone_30_km = None /\ o.cone_60_km = None

\* C1: in one track_objects call no two current objects are assigned the
\* same previous ID: two current objects that both adopted the ID of a
\* previous object carry different IDs.
C1_NoSharedPrevId ==
  \A p \in Procs : Tracked(p) =>
    \A i, k \in 1..Len(cur_raw[p]) :
      (i # k /\ Matches(p)[i] # 0 /\ Matches(p)[k] # 0)
        => out_objs[p][i].id # out_objs[p][k].id

\* C2 (as stated): a current object with exactly the centroid of a previous
\* object is assigned that previous object's ID.
C2_SameCentroidGetsId ==
  \A p \in Procs : Tracked(p) =>
    \A i \in 1..Len(cur_raw[p]) : \A j \in 1..Len(PrevObjs(p)) :
      cur_raw[p][i].lat = PrevObjs(p)[j].lat
        => out_objs[p][i].id = PrevObjs(p)[j].id

\* C2 (amended): a current object with exactly the centroid of a previous
\* object that no earlier current object of the call has adopted is assigned
\* the ID of that previous object (the first such one in list order).
C2_SameCentroidUnusedGetsId ==
  \A p \in Procs : Tracked(p) =>
    \A i \in 1..Len(cur_raw[p]) : \A j \in 1..Len(PrevObjs(p)) :
      ( /\ cur_raw[p][i].lat = PrevObjs(p)[j].lat
        /\ j \notin UsedBefore(p, i)
        /\ \A j2 \in 1..(j - 1) :
             j2 \notin UsedBefore(p, i)
               => PrevObjs(p)[j2].lat # cur_raw[p][i].lat )
        => out_objs[p][i].id = PrevObjs(p)[j].id

\* C2 witness: the second current object sits on a previous object that is
\* still free, a nearer-than-gate neighbour having been taken by the first
C2_Witness ==
  \E p \in Procs : Tracked(p) /\ Len(cur_raw[p]) = 2 /\ Len(PrevObjs(p)) = 2
    /\ Matches(p) = <<1, 2>>
    /\ cur_raw[p][1].lat # PrevObjs(p)[1].lat
    /\ cur_raw[p][2].lat = PrevObjs(p)[2].lat
    /\ out_objs[p][2].id = PrevObjs(p)[2].id

\* C3: a current object farther than max_match_km from every previous
\* object gets the minted ID S{i:02d}, and that ID is the ID of no object of
\* the previous list.
C3_FarGetsFreshId ==
  \A p \in Procs : Tracked(p) =>
    \A i \in 1..Len(cur_raw[p]) :
      (\A j \in 1..Len(PrevObjs(p)) :
          Abs(cur_raw[p][i].lat - PrevObjs(p)[j].lat) > 60)
        => /\ out_objs[p][i].id = IdS(i)
           /\ \A j \in 1..Len(PrevObjs(p)) :
                out_objs[p][i].id # PrevObjs(p)[j].id

\* C4: in the payload of run_storm_detection every object the tracker did
\* not match to a previous object has no motion, forecast or cone.
C4_UnmatchedNoMotion ==
  \A p \in Procs : (Tracked(p) /\ entry = "storm") =>
    \A i \in 1..Len(cur_raw[p]) :
      Matches(p)[i] = 0 => AllNone(out_objs[p][i])

\* C5: a read of the track file that finds it absent, unreadable or holding
\* an empty object list makes every detected object new: the i-th object
\* gets the ID S{i:02d} and (run_storm_detection) no motion.
AllNew(objs) ==
  \A i \in 1..Len(objs) :
    /\ objs[i].id = IdS(i)
    /\ entry = "storm" => AllNone(objs[i])
C5_NoPrevAllNew ==
  [][\A p \in Procs :
       ( /\ pc[p] = "read" /\ pc'[p] = "write"
         /\ (trackFile.st # "json" \/ trackFile.objects = <<>>) )
       => /\ Len(out_objs'[p]) = Len(cur_raw[p])
          /\ AllNew(out_objs'[p])]_vars

\* C5 witness: two objects detected with no previous state, both minted
C5_Witness ==
  \E p \in Procs : Tracked(p) /\ IsNone(prev_payload[p])
    /\ Len(out_objs[p]) = 2
    /\ out_objs[p][1].id = "S01" /\ out_objs[p][2].id = "S02"

\* C6: with the field file missing the call raises at once: the track file
\* has not been read, and nothing is written to it.
C6_MissingFieldRaises ==
  /\ [](\A p \in Procs : pc[p] = "raised" => nread[p] = 0 /\ nwrite[p] = 0)
  /\ [][\A p \in Procs :
          (pc[p] = "idle" /\ pc'[p] # "idle" /\ ~fieldFile)
            => /\ pc'[p] = "raised"
               /\ trackFile' = trackFile
               /\ nread'[p] = 0 /\ nwrite'[p] = 0]_vars

\* C6 witness: a call has raised on the missing field file
C6_Witness ==
  \E p \in Procs : pc[p] = "raised" /\ ~fieldFile /\ trackFile.st # "json"

lats_1d == <<-5, 5>>
lons_1d == [c \in 1..GridCols |-> 10 * (c - 1)]
Cells == (1..Len(lats_1d)) \X (1..Len(lons_1d))
CellVals == {<<"nan">>, <<"inf">>, <<"num", 6>>, <<"num", 7>>}
Thresholds == {6, 7}

\* np.isfinite
IsFinite(v) == v[1] = "num"

\* comp >= threshold (False for NaN, True for +inf)
GeThreshold(v, thr) ==
  IF v[1] = "nan" THEN FALSE ELSE IF v[1] = "inf" THEN TRUE ELSE v[2] >= thr

\* mask = np.isfinite(comp) & (comp >= threshold)
Mask(comp, thr) ==
  {x \in DOMAIN comp : IsFinite(comp[x]) /\ GeThreshold(comp[x], thr)}

\* Neighbours along the row only
NeighboursRowOnly(x) == {<<x[1], x[2] - 1>>, <<x[1], x[2] + 1>>}

\* the 8 neighbours, diagonal ones included
Neighbours8(x) ==
  {<<x[1] + dy, x[2] + dx>> : dy \in {-1, 0, 1}, dx \in {-1, 0, 1}} \ {x}

\* the default structuring element of ndimage.label: the 4 edge neighbours
Neighbours(x) ==
  {<<x[1] - 1, x[2]>>, <<x[1] + 1, x[2]>>, <<x[1], x[2] - 1>>, <<x[1], x[2] + 1>>}

\* the region of mask that holds the cells S
RECURSIVE Flood(_, _)
Flood(S, mask) ==
  LET nb == {x \in mask \ S : \E y \in S : x \in Neighbours(y)}
  IN  IF nb = {} THEN S ELSE Flood(S \cup nb, mask)

\* ndimage.label: the regions, numbered in raster order of their first cell
RasterIdx(x) == (x[1] - 1) * Len(lons_1d) + x[2]
RECURSIVE Label(_)
Label(mask) ==
  IF mask = {} THEN <<>>
  ELSE LET first == CHOOSE x \in mask :
                      \A y \in mask : RasterIdx(x) <= RasterIdx(y)
           region == Flood({first}, mask)
       IN  <<region>> \o Label(mask \ region)

\* the sum and the maximum of the values f[x] for x in S
RECURSIVE SumOver(_, _)
SumOver(S, f) ==
  IF S = {} THEN 0
  ELSE LET x == CHOOSE y \in S : TRUE IN f[x] + SumOver(S \ {x}, f)

MaxOver(S, f) == CHOOSE m \in {f[x] : x \in S} : \A x \in S : f[x] <= m

\* np.nanmedian(np.abs(np.diff(a))) of a regularly spaced coordinate array
MedianSpacing(a) == Abs(a[2] - a[1])

\* cos(lat0) for the median latitude of the grid, which is the equator
CosLat0(lats) == 1

\* _pixel_area_km2, in 1/10000 km2 for spacings in 1/100 degree:
\* max(111 dlat * 111 cos(lat0) dlon, 0.1)
pixel_area_km2(lats, lons) ==
  IF Len(lats) < 2 \/ Len(lons) < 2 THEN 10000
  ELSE Max(111 * MedianSpacing(lats) * 111 * CosLat0(lats) * MedianSpacing(lons),
           1000)

\* the tuple appended for one labelled region; vmean is the pair
\* <<sum, count>>, cells keeps the region's pixels (ys, xs)
RegionTuple(region, comp, pix_area) ==
  LET n  == Cardinality(region)
      y0 == RoundDiv(SumOver(region, [x \in region |-> x[1] - 1]), n)
      x0 == RoundDiv(SumOver(region, [x \in region |-> x[2] - 1]), n)
  IN  [lat   |-> lats_1d[y0 + 1],
       lon   |-> lons_1d[x0 + 1],
       area  |-> n * pix_area,
       vmax  |-> MaxOver(region, [x \in region |-> comp[x][2]]),
       vmean |-> <<SumOver(region, [x \in region |-> comp[x][2]]), n>>,
       cells |-> region]

\* a key that looks at the maximum only
KeyGtMaxOnly(a, b) == a.vmax > b.vmax

\* the key (max, area) of a is greater than that of b
KeyGt(a, b) == a.vmax > b.vmax \/ (a.vmax = b.vmax /\ a.area > b.area)

\* objs.sort(key=(max, area), reverse=True): stable, descending
RECURSIVE InsertDesc(_, _)
InsertDesc(x, sorted) ==
  IF sorted = <<>> THEN <<x>>
  ELSE IF KeyGt(x, Head(sorted)) THEN <<x>> \o sorted
  ELSE <<Head(sorted)>> \o InsertDesc(x, Tail(sorted))

RECURSIVE SortDesc(_, _)
SortDesc(seq, acc) ==
  IF seq = <<>> THEN acc ELSE SortDesc(Tail(seq), InsertDesc(Head(seq), acc))

\* KeepRegion that also drops a region of exactly min_pixels cells
KeepRegionStrict(region, minpix) == Cardinality(region) > minpix

\* the size filter: "if ys.size < min_pixels: continue"
KeepRegion(region, minpix) == ~(Cardinality(region) < minpix)

detect_objects(lons, lats, comp, thr, minpix) ==
  LET mask == Mask(comp, thr)
      regions == Label(mask)
      pix_area == pixel_area_km2(lats, lons)
      kept == SelectSeq(regions, LAMBDA r : KeepRegion(r, minpix))
      tuples == [i \in 1..Len(kept) |-> RegionTuple(kept[i], comp, pix_area)]
  IN  IF mask = {} THEN <<>> ELSE SortDesc(tuples, <<>>)

InitDetect ==
  /\ TrackIdle /\ ImpactIdle /\ MotionIdle /\ BoundaryIdle
  /\ composite_2d \in [Cells -> CellVals]
  /\ threshold \in Thresholds
  /\ min_pixels \in 1..MaxMinPixels
  /\ det_objs = <<>>
  /\ det_tracked = <<>>
  /\ dpc = "input"

\* one call of detect_objects
Detect ==
  /\ dpc = "input"
  /\ det_objs' = detect_objects(lons_1d, lats_1d, composite_2d, threshold,
                                min_pixels)
  /\ dpc' = "done"
  /\ UNCHANGED <<composite_2d, threshold, min_pixels, det_tracked, trackVars,
                 impactVars, motionVars, boundaryVars>>

\* the first cycle of run_storm_detection after the detector returned: no
\* previous payload, tracked = track_objects(cur_raw, []), out_objs =
\* to_dicts(tracked), persisted in this order
TrackDetected ==
  /\ dpc = "done"
  /\ det_tracked' = to_dicts(track_objects(det_objs, <<>>))
  /\ dpc' = "persisted"
  /\ UNCHANGED <<composite_2d, threshold, min_pixels, det_objs, trackVars,
                 impactVars, motionVars, boundaryVars>>

NextDetect == Detect \/ TrackDetected

SpecDetect == InitDetect /\ [][NextDetect]_vars

\* ------------------------------------------------- claims on detect_objects
\* the cells that are finite and not below the threshold
Qualifying == {x \in Cells : composite_2d[x][1] = "num"
                             /\ composite_2d[x][2] >= threshold}

Adjacent(x, y) == Abs(x[1] - y[1]) + Abs(x[2] - y[2]) = 1

\* the qualifying cells linked to S by chains of adjacent qualifying cells
RECURSIVE Reach(_)
Reach(S) ==
  LET more == {x \in Qualifying \ S : \E y \in S : Adjacent(x, y)}
  IN  IF more = {} THEN S ELSE Reach(S \cup more)

IsRectangle(S) ==
  \E r1, r2 \in 1..Len(lats_1d) : \E c1, c2 \in 1..Len(lons_1d) :
    /\ r1 <= r2 /\ c1 <= c2
    /\ S = (r1..r2) \X (c1..c2)

\* C8: when the qualifying cells form exactly one rectangle of at least
\* min_pixels cells, detect_objects returns exactly one object, its centroid
\* is the position of a cell of the rectangle, and its area is the number
\* of cells times the pixel area.
C8_OneRegionOneObject ==
  (dpc = "done" /\ IsRectangle(Qualifying)
   /\ Cardinality(Qualifying) >= min_pixels)
  => /\ Len(det_objs) = 1
     /\ \E x \in Qualifying : /\ det_objs[1].lat = lats_1d[x[1]]
                              /\ det_objs[1].lon = lons_1d[x[2]]
     /\ det_objs[1].area
          = Cardinality(Qualifying) * pixel_area_km2(lats_1d, lons_1d)

\* C8 witness: a rectangle spanning both rows and two columns, next to a
\* non-qualifying column, was detected as one object with min_pixels = 2.
C8_Witness ==
  /\ dpc = "done" /\ min_pixels = 2
  /\ IsRectangle(Qualifying) /\ Cardinality(Qualifying) = 4
  /\ Len(det_objs) = 1
  /\ det_objs[1].area = 4 * 1232100

\* C9: the objects returned are exactly the connected regions of finite
\* cells >= threshold that have at least min_pixels cells, one object per
\* region, with area and maximum taken over that region's cells; when no
\* region is that large (or no cell qualifies) the list is empty.
C9_ObjectsAreQualifyingRegions ==
  dpc = "done" =>
    LET big == {Reach({x}) : x \in {y \in Qualifying :
                                      Cardinality(Reach({y})) >= min_pixels}}
    IN  /\ {det_objs[i].cells : i \in 1..Len(det_objs)} = big
        /\ Len(det_objs) = Cardinality(big)
        /\ \A i \in 1..Len(det_objs) :
             /\ det_objs[i].cells \subseteq Qualifying
             /\ Cardinality(det_objs[i].cells) >= min_pixels
             /\ det_objs[i].area = Cardinality(det_objs[i].cells)
                                     * pixel_area_km2(lats_1d, lons_1d)
             /\ \E x \in det_objs[i].cells :
                  det_objs[i].vmax = composite_2d[x][2]
        /\ (\A x \in Qualifying : Cardinality(Reach({x})) < min_pixels)
             => det_objs = <<>>

\* C9 witness: a grid with a NaN cell, an infinite cell, a cell equal to
\* the threshold inside a returned region, and a region too small to keep.
C9_Witness ==
  /\ dpc = "done" /\ min_pixels = 2
  /\ \E x \in Cells : composite_2d[x] = <<"nan">>
  /\ \E x \in Cells : composite_2d[x] = <<"inf">>
  /\ Len(det_objs) = 1
  /\ \E x \in det_objs[1].cells : composite_2d[x][2] = threshold
  /\ \E x \in Qualifying : Cardinality(Reach({x})) = 1


\* ============================================================== impact_hits
\* Positions are whole degrees with latitudes in -1..1; every (storm, target)
\* pair that gets as far as point_to_segment_km has py + y1 + y2 = 0, so
\* lat0 = 0 and kx = 111 cos(0) = 111 = ky.  speed_kmh is in 1/10 km/h,
\* dist_km in 1/10 km, eta_min in minutes.
\* the IDs of a payload's two objects: distinct, or both "S02" as the
\* tracker can persist them
StormIdLists == {<<"S01", "S02">>, <<"S02", "S02">>}
TargetNames == <<"A", "B">>
ImpactLats == {-1, 0, 1}
ImpactLons == {0, 1}
Radii == {50, 111}
Speeds == {0, 300}
Composites == {6, 7}

\* squared distance from point to segment, in degree^2 with kx = ky, as the
\* fraction <<num, den>>: t = (w.v)/vv clamped to [0, 1], |w - t v|^2
SegDist2(px, py, x1, y1, x2, y2) ==
  LET vx == x2 - x1
      vy == y2 - y1
      wx == px - x1
      wy == py - y1
      vv == vx * vx + vy * vy
      wv == wx * vx + wy * vy
      ww == wx * wx + wy * wy
  IN  IF vv = 0 THEN <<ww, 1>>
      ELSE IF wv <= 0 THEN <<ww, 1>>
      ELSE IF wv >= vv THEN <<(px - x2) * (px - x2) + (py - y2) * (py - y2), 1>>
      ELSE <<ww * vv - wv * wv, vv>>

\* point_to_segment_km: d^2 = ky^2 * num / den, as a fraction in km^2
point_to_segment_km(px, py, x1, y1, x2, y2) ==
  LET q == SegDist2(px, py, x1, y1, x2, y2)
  IN  <<KyKm * KyKm * q[1], q[2]>>

\* WithinRadius with the boundary excluded
WithinRadiusStrict(d2, radius) == d2[1] < radius * radius * d2[2]

\* d <= radius_km
WithinRadius(d2, radius) == d2[1] <= radius * radius * d2[2]

\* round(float(d), 1), in 1/10 km
RoundDist(d2) ==
  LET n10 == 100 * d2[1]
      n == Isqrt(n10 \div d2[2])
      lhs == 4 * n10
      rhs == d2[2] * (2 * n + 1) * (2 * n + 1)
  IN  IF lhs > rhs THEN n + 1
      ELSE IF lhs = rhs /\ n % 2 = 1 THEN n + 1
      ELSE n

\* haversine_km of compute/impact.py between points a degree or two apart
\* at the equator, in units of 10 m: R * sqrt(dphi^2 + dlambda^2)
impact_haversine(lat1, lon1, lat2, lon2) ==
  Isqrt(EarthRadius10m * EarthRadius10m
        * ((lat2 - lat1) * (lat2 - lat1) + (lon2 - lon1) * (lon2 - lon1)))

\* ((s.get("motion") or {}).get("speed_kmh")) or None: a speed of 0 is falsy
SpeedOf(s) ==
  IF IsNone(s.motion) THEN None
  ELSE IF Get(s.motion).speed_kmh = 0 THEN None
  ELSE Some(Get(s.motion).speed_kmh)

\* (s.get("motion") or {}).get("bearing_deg")
BearingOf(s) ==
  IF IsNone(s.motion) THEN None ELSE Some(Get(s.motion).bearing_deg)

\* the body of the inner loop for one storm that has both positions: the
\* hits (none or one) appended for target t
HitsOfPair(s, t, radius) ==
  IF IsNone(t.lat) \/ IsNone(t.lon) THEN <<>>
  ELSE
    LET f == Get(s.forecast_60min)
        d == point_to_segment_km(Get(t.lon), Get(t.lat), Get(s.lon),
                                 Get(s.lat), f.lon, f.lat)
        speed == SpeedOf(s)
        eta == IF IsSome(speed) /\ Get(speed) > 0
               THEN Some(RoundDiv(impact_haversine(Get(s.lat), Get(s.lon),
                                                   Get(t.lat), Get(t.lon)) * 6,
                                  Get(speed)))
               ELSE None
    IN  IF WithinRadius(d, radius)
        THEN <<[storm_id      |-> s.id,
                target        |-> t.name,
                dist_km       |-> RoundDist(d),
                eta_min       |-> eta,
                max_composite |-> s.max_composite,
                speed_kmh     |-> speed,
                bearing_deg   |-> BearingOf(s)]>>
        ELSE <<>>

RECURSIVE HitsOfStorm(_, _, _, _)
HitsOfStorm(s, tgts, radius, j) ==
  IF j > Len(tgts) THEN <<>>
  ELSE HitsOfPair(s, tgts[j], radius) \o HitsOfStorm(s, tgts, radius, j + 1)

\* the storm is skipped: no current position or no forecast at the horizon
SkipStorm(s) == IsNone(s.lat) \/ IsNone(s.lon) \/ IsNone(s.forecast_60min)

RECURSIVE HitsLoop(_, _, _, _)
HitsLoop(sts, tgts, radius, i) ==
  IF i > Len(sts) THEN <<>>
  ELSE (IF SkipStorm(sts[i]) THEN <<>>
        ELSE HitsOfStorm(sts[i], tgts, radius, 1))
       \o HitsLoop(sts, tgts, radius, i + 1)

\* HitLess with the intensity ascending
HitLessIntensityAsc(a, b) ==
  a.dist_km < b.dist_km
  \/ (a.dist_km = b.dist_km /\ a.max_composite < b.max_composite)

\* the sort key (dist_km, -max_composite) of a is less than that of b
HitLess(a, b) ==
  a.dist_km < b.dist_km
  \/ (a.dist_km = b.dist_km /\ -a.max_composite < -b.max_composite)

\* hits.sort(key=...): stable, ascending
RECURSIVE InsertHit(_, _)
InsertHit(x, sorted) ==
  IF sorted = <<>> THEN <<x>>
  ELSE IF HitLess(x, Head(sorted)) THEN <<x>> \o sorted
  ELSE <<Head(sorted)>> \o InsertHit(x, Tail(sorted))

RECURSIVE SortHits(_, _)
SortHits(seq, acc) ==
  IF seq = <<>> THEN acc ELSE SortHits(Tail(seq), InsertHit(Head(seq), acc))

impact_hits(sts, tgts, radius) == SortHits(HitsLoop(sts, tgts, radius, 1), <<>>)

\* the storms of a payload whose paths, with a target of latitude tl, have
\* lat0 = 0; one without forecast and one without position are among them
StormBodies(tl) ==
  LET geo == {<<Some(y1), Some(x1), Some([lat |-> y2, lon |-> x2])>> :
                <<y1, x1, y2, x2>> \in
                  {q \in ImpactLats \X ImpactLons \X ImpactLats \X ImpactLons :
                     q[1] + q[3] + tl = 0}}
             \cup {<<Some(0), Some(0), None>>}
             \cup {<<None, None, Some([lat |-> 0, lon |-> 0])>>}
      mot == {None} \cup {Some([speed_kmh |-> v, bearing_deg |-> 90]) :
                            v \in Speeds}
  IN  {[lat |-> g[1], lon |-> g[2], forecast_60min |-> g[3], motion |-> m,
        max_composite |-> c] : g \in geo, m \in mot, c \in Composites}

WithId(body, id) ==
  [id |-> id, lat |-> body.lat, lon |-> body.lon,
   forecast_60min |-> body.forecast_60min, motion |-> body.motion,
   max_composite |-> body.max_composite]

\* the targets of latitude tl, and one whose position is missing
TargetBodies(tl) ==
  {[lat |-> Some(tl), lon |-> Some(x)] : x \in ImpactLons}
  \cup {[lat |-> None, lon |-> None]}

InitImpact ==
  /\ TrackIdle /\ DetectIdle /\ MotionIdle /\ BoundaryIdle
  /\ \E tl \in ImpactLats :
       /\ \E ids \in StormIdLists : \E b \in [DOMAIN ids -> StormBodies(tl)] :
            storms = [i \in DOMAIN ids |-> WithId(b[i], ids[i])]
       /\ \E b \in [DOMAIN TargetNames -> TargetBodies(tl)] :
            targets = [j \in DOMAIN TargetNames |->
                         [name |-> TargetNames[j], lat |-> b[j].lat,
                          lon |-> b[j].lon]]
  /\ radius_km \in Radii
  /\ hits = <<>>
  /\ ipc = "input"

\* one call of impact_hits
Impact ==
  /\ ipc = "input"
  /\ hits' = impact_hits(storms, targets, radius_km)
  /\ ipc' = "done"
  /\ UNCHANGED <<storms, targets, radius_km, trackVars, detectVars,
                 motionVars, boundaryVars>>

NextImpact == Impact

SpecImpact == InitImpact /\ [][NextImpact]_vars

\* ---------------------------------------------------- claims on impact_hits
HasPath(s) == IsSome(s.lat) /\ IsSome(s.lon) /\ IsSome(s.forecast_60min)
HasPosition(t) == IsSome(t.lat) /\ IsSome(t.lon)

\* the squared distance in km^2, as a fraction, from target t to the path of s
PathDist2(s, t) ==
  point_to_segment_km(Get(t.lon), Get(t.lat), Get(s.lon), Get(s.lat),
                      Get(s.forecast_60min).lon, Get(s.forecast_60min).lat)

\* the pairs (storm index, target index) within the radius of the path
NearPairs ==
  {q \in (DOMAIN storms) \X (DOMAIN targets) :
     /\ HasPath(storms[q[1]]) /\ HasPosition(targets[q[2]])
     /\ LET d2 == PathDist2(storms[q[1]], targets[q[2]])
        IN  d2[1] <= radius_km * radius_km * d2[2]}

\* target t lies on the segment from the position of s to its forecast
OnPath(s, t) ==
  LET ax == Get(s.lon)
      ay == Get(s.lat)
      bx == Get(s.forecast_60min).lon
      by == Get(s.forecast_60min).lat
      px == Get(t.lon)
      py == Get(t.lat)
  IN  /\ (bx - ax) * (py - ay) = (by - ay) * (px - ax)
      /\ Min(ax, bx) <= px /\ px <= Max(ax, bx)
      /\ Min(ay, by) <= py /\ py <= Max(ay, by)

HitFor(k, q) == /\ hits[k].storm_id = storms[q[1]].id
                /\ hits[k].target = targets[q[2]].name

\* C10: there is a hit for a (storm, target) pair exactly when the storm
\* has a position and a forecast and the target is within radius_km
\* (inclusive) of the segment between them, and no pair has two hits: the
\* hits correspond one to one to those pairs, also when two storms carry
\* the same ID; a target on the segment gets a hit with dist_km = 0.
C10_HitIffWithinRadius ==
  ipc = "done" =>
    /\ Len(hits) = Cardinality(NearPairs)
    /\ \E f \in [DOMAIN hits -> NearPairs] :
         /\ \A k, l \in DOMAIN hits : f[k] = f[l] => k = l
         /\ \A k \in DOMAIN hits : HitFor(k, f[k])
    /\ \A q \in (DOMAIN storms) \X (DOMAIN targets) :
         (HasPath(storms[q[1]]) /\ HasPosition(targets[q[2]])
          /\ OnPath(storms[q[1]], targets[q[2]]))
         => \E k \in DOMAIN hits : HitFor(k, q) /\ hits[k].dist_km = 0

\* C10 witness: one target strictly inside a storm's segment (hit at 0 km),
\* one exactly radius_km away from it (hit), one storm without forecast
\* (no hit).
C10_Witness ==
  /\ ipc = "done" /\ radius_km = 111
  /\ \E i \in DOMAIN storms : ~HasPath(storms[i])
  /\ \E i \in DOMAIN storms : \E j, m \in DOMAIN targets :
       /\ HasPath(storms[i]) /\ HasPosition(targets[j])
       /\ HasPosition(targets[m])
       /\ OnPath(storms[i], targets[j])
       /\ Get(storms[i].lat) # Get(targets[j].lat)
       /\ Get(storms[i].forecast_60min).lat # Get(targets[j].lat)
       /\ PathDist2(storms[i], targets[m])[1]
            = radius_km * radius_km * PathDist2(storms[i], targets[m])[2]
       /\ \E k \in DOMAIN hits : HitFor(k, <<i, j>>) /\ hits[k].dist_km = 0
       /\ \E k \in DOMAIN hits : HitFor(k, <<i, m>>) /\ hits[k].dist_km = 1110
  /\ Len(hits) = 2

\* C11: the list returned by impact_hits is in ascending order of dist_km,
\* and of two hits with the same dist_km the one with the larger
\* max_composite comes first.
C11_HitsSorted ==
  ipc = "done" =>
    \A k, l \in DOMAIN hits :
      k < l => \/ hits[k].dist_km < hits[l].dist_km
               \/ /\ hits[k].dist_km = hits[l].dist_km
                  /\ hits[k].max_composite >= hits[l].max_composite

\* C11 witness: the loop appended a farther hit before a nearer one and,
\* at the same distance, a weaker storm's hit before a stronger storm's;
\* the returned list has both pairs the other way round.
C11_Witness ==
  /\ ipc = "done" /\ Len(hits) = 4
  /\ LET raw == HitsLoop(storms, targets, radius_km, 1)
     IN  /\ raw # hits
         /\ raw[1].dist_km > raw[2].dist_km
         /\ storms[1].max_composite < storms[2].max_composite
  /\ hits[1].dist_km = hits[2].dist_km
  /\ hits[1].max_composite > hits[2].max_composite
  /\ hits[2].dist_km < hits[3].dist_km

\* ================================================= the motion estimator alone
\* run_storm_detection from the read of the previous payload to the list of
\* enriched objects, for previous payloads and clock readings drawn from
\* the sets below.  A stored bearing_deg of 360 is what round(bearing, 0)
\* leaves for a raw bearing of 359.5 degrees or more.
MotionLats == {0, 60, 90}
MotionNows == {200}
MotionStamps == {0, 80, 90, 100, 110, 140, 185, 188, 190, 195, 197, 200, 210}
StoredSpeeds == {0, 600}            \* speed_kmh as stored, 1/10 km/h
StoredBearings == {0, 180, 360}     \* bearing_deg as stored

MotionAreas == {100, 90000}         \* area_km2 of a detected object

\* the detector's results: sorted by (max, area), centroids distinct
MotionLists ==
  {c \in UNION {[1..n -> [lat : MotionLats, area : MotionAreas, vmax : VMax]] :
                 n \in 0..MotionObjs} :
     /\ Sorted(c)
     /\ \A i, k \in 1..Len(c) : i # k => c[i].lat # c[k].lat}

\* the motion fields a stored object can carry
StoredMotions ==
  {None} \cup {Some([speed_kmh |-> v, bearing_deg |-> b]) :
                 v \in StoredSpeeds, b \in StoredBearings}

\* an object of a stored payload
StoredObj(id, lat, mot) ==
  [id |-> id, lat |-> lat, area |-> 100, vmax |-> 7,
   motion |-> IF IsNone(mot) THEN None
              ELSE Some([from |-> lat, to |-> lat, dist_km |-> 0,
                         bearing_deg |-> Get(mot).bearing_deg,
                         speed_kmh |-> Get(mot).speed_kmh, dt_min |-> 60]),
   forecast_30min |-> IF IsNone(mot) THEN None ELSE Some(lat * 1000),
   forecast_60min |-> IF IsNone(mot) THEN None ELSE Some(lat * 1000),
   cone_30_km |-> IF IsNone(mot) THEN None ELSE Some(200),
   cone_60_km |-> IF IsNone(mot) THEN None ELSE Some(350),
   motion_confidence |-> "low"]

\* the object lists of a stored payload: none, one or two objects at
\* distinct centroids, with the IDs S01, S02
StoredLists ==
  {<<>>}
  \cup {<<StoredObj(MintId(1), l, m)>> : l \in MotionLats, m \in StoredMotions}
  \cup {<<StoredObj(MintId(1), q[1], q[2]), StoredObj(MintId(2), q[3], q[4])>> :
          q \in {r \in MotionLats \X StoredMotions \X MotionLats \X StoredMotions :
                   r[1] # r[3]}}

\* what _read_prev_payload can return
StoredPayloads ==
  {None}
  \cup {Some([st |-> "json", ts |-> t, objects |-> objs]) :
          t \in {None} \cup {Some(x) : x \in MotionStamps},
          objs \in StoredLists}

InitMotion ==
  /\ TrackIdle /\ DetectIdle /\ ImpactIdle /\ BoundaryIdle
  /\ m_prev \in StoredPayloads
  /\ m_cur \in MotionLists
  /\ m_now \in MotionNows
  /\ m_out = <<>>
  /\ mpc = "input"

\* track the detected objects against the previous payload and add motion
Motion ==
  /\ mpc = "input"
  /\ m_out' = Enrich(m_cur, m_prev, m_now)
  /\ mpc' = "done"
  /\ UNCHANGED <<m_prev, m_cur, m_now, trackVars, detectVars, impactVars,
                 boundaryVars>>

NextMotion == Motion

SpecMotion == InitMotion /\ [][NextMotion]_vars

\* ------------------------------------------- claims on the motion estimator
MPrevObjs == IF IsNone(m_prev) THEN <<>> ELSE Get(m_prev).objects

\* the object of the previous payload stored under the ID id (the last one
\* when several carry it), as an index, 0 when there is none
SameIdPred(id) ==
  LET js == {j \in DOMAIN MPrevObjs : MPrevObjs[j].id = id}
  IN  IF js = {} THEN 0 ELSE CHOOSE j \in js : \A k \in js : k <= j

\* the minutes between the stored timestamp and the clock reading, clamped
Elapsed == m_now - Get(Get(m_prev).ts)
ClampedDt ==
  IF IsNone(Get(m_prev).ts) THEN 60
  ELSE IF Elapsed <= 5 THEN 5 ELSE IF Elapsed >= 120 THEN 120 ELSE Elapsed

\* the immediate re-run: a stored timestamp at most 5 minutes old
ImmediateRerun == IsSome(Get(m_prev).ts) /\ Elapsed <= 5

\* raw speed in 1/1000 km/h and raw bearing between two centroids
RawSpeed(lat1, lat2) == (Abs(lat2 - lat1) * 60000) \div ClampedDt
RawBearing(lat1, lat2) == IF lat2 >= lat1 THEN 0 ELSE 180

\* C12: an object whose same-ID predecessor carries no motion is emitted
\* with the raw speed dist_km / (dt / 60) and the raw bearing; when the
\* predecessor carries a speed, the emitted speed is
\* 0.70 * prev_speed + 0.30 * new_speed, new_speed being the speed the
\* cycle measured (the raw speed, or the predecessor's own in an immediate
\* re-run); speed_kmh is emitted rounded to 0.1 km/h.
C12_RawThenSmoothed ==
  mpc = "done" =>
    \A i \in DOMAIN m_out :
      LET j == SameIdPred(m_out[i].id)
      IN  j # 0 =>
          LET po  == MPrevObjs[j]
              mo  == Get(m_out[i].motion)
              raw == RawSpeed(po.lat, m_out[i].lat)
          IN  /\ IsSome(m_out[i].motion)
              /\ IsNone(po.motion) =>
                   /\ mo.speed_kmh = RoundDiv(raw, 100)
                   /\ mo.bearing_deg = RawBearing(po.lat, m_out[i].lat)
              /\ IsSome(po.motion) =>
                   LET prev10 == Get(po.motion).speed_kmh
                       new == IF ImmediateRerun THEN prev10 * 100 ELSE raw
                   IN  mo.speed_kmh = RoundDiv(700 * prev10 + 3 * new, 1000)

\* C12 witness: 60 minutes after the previous payload, one object 60 km
\* from its predecessor without motion is emitted at 60.0 km/h, and one
\* that did not move, whose predecessor was stored at 60.0 km/h, at 42.0.
C12_Witness ==
  /\ mpc = "done" /\ IsSome(m_prev) /\ Get(m_prev).ts = Some(140)
  /\ \E i, k \in DOMAIN m_out :
       /\ SameIdPred(m_out[i].id) # 0 /\ SameIdPred(m_out[k].id) # 0
       /\ IsNone(MPrevObjs[SameIdPred(m_out[i].id)].motion)
       /\ Abs(m_out[i].lat - MPrevObjs[SameIdPred(m_out[i].id)].lat) = 60
       /\ Get(m_out[i].motion).speed_kmh = 600
       /\ IsSome(MPrevObjs[SameIdPred(m_out[k].id)].motion)
       /\ Get(MPrevObjs[SameIdPred(m_out[k].id)].motion).speed_kmh = 600
       /\ m_out[k].lat = MPrevObjs[SameIdPred(m_out[k].id)].lat
       /\ Get(m_out[k].motion).speed_kmh = 420

\* C18: in an immediate re-run (elapsed time clamped at 5 minutes) an
\* object whose same-ID predecessor carries a speed and a bearing is
\* emitted with exactly the predecessor's speed_kmh and bearing_deg.
C18_RerunReusesMotion ==
  (mpc = "done" /\ IsSome(m_prev) /\ ImmediateRerun) =>
    \A i \in DOMAIN m_out :
      LET j == SameIdPred(m_out[i].id)
      IN  (j # 0 /\ IsSome(MPrevObjs[j].motion)) =>
            /\ IsSome(m_out[i].motion)
            /\ Get(m_out[i].motion).speed_kmh
                 = Get(MPrevObjs[j].motion).speed_kmh
            /\ Get(m_out[i].motion).bearing_deg
                 = Get(MPrevObjs[j].motion).bearing_deg

\* C20: the elapsed time used for motion is the difference of the two
\* timestamps clamped to [5, 120] (5 for a stored timestamp equal to or
\* later than the clock reading, 120 for a very old one) and 60 when the
\* stored timestamp is missing or does not parse; so dt_min of every motion
\* record lies in [5, 120].
C20_DtClamped ==
  (mpc = "done" /\ IsSome(m_prev)) =>
    \A i \in DOMAIN m_out :
      IsSome(m_out[i].motion) =>
        LET dt == Get(m_out[i].motion).dt_min
        IN  /\ 5 <= dt /\ dt <= 120
            /\ dt = ClampedDt
            /\ (IsSome(Get(m_prev).ts) /\ Get(Get(m_prev).ts) >= m_now)
                 => dt = 5
            /\ (IsSome(Get(m_prev).ts) /\ m_now - Get(Get(m_prev).ts) >= 120)
                 => dt = 120
            /\ IsNone(Get(m_prev).ts) => dt = 60

\* C20 witness: the stored timestamp lies in the future and an object that
\* moved 30 km got a motion record over 5 minutes, 360.0 km/h.
C20_Witness ==
  /\ mpc = "done" /\ IsSome(m_prev)
  /\ IsSome(Get(m_prev).ts) /\ Get(Get(m_prev).ts) > m_now
  /\ \E i \in DOMAIN m_out :
       /\ IsSome(m_out[i].motion)
       /\ Get(m_out[i].motion).dt_min = 5
       /\ Get(m_out[i].motion).dist_km = 30
       /\ Get(m_out[i].motion).speed_kmh = 3600

\* ------------------------------------------ claims on the detect/track cycle
\* the greedy reference: the current objects in order, each taking the
\* nearest previous object not taken before it (the earliest on ties) when
\* it is within 60 km, else none (0)
RECURSIVE RefMatches(_, _, _, _)
RefMatches(cur, prev, i, taken) ==
  IF i > Len(cur) THEN <<>>
  ELSE LET free == (DOMAIN prev) \ taken
           d(j) == Abs(cur[i].lat - prev[j].lat)
           near == {j \in free : \A k \in free : d(j) <= d(k)}
           pick == IF near = {} THEN 0
                   ELSE CHOOSE j \in near : \A k \in near : j <= k
           m == IF pick # 0 /\ d(pick) <= 60 THEN pick ELSE 0
       IN  <<m>> \o RefMatches(cur, prev, i + 1,
                               IF m = 0 THEN taken ELSE taken \cup {m})

C16_PersistedIdsDistinct ==
  trackFile.st = "json" =>
    \A i, k \in DOMAIN trackFile.objects :
      i # k => trackFile.objects[i].id # trackFile.objects[k].id

\* C17: for every object with a motion record, the tracker matched it to a
\* previous object and the motion was computed from that object:
\* motion.from is its centroid and the raw distance is at most 60 km.
C17_MotionFromMatchedObject ==
  \A p \in Procs : (Tracked(p) /\ entry = "storm") =>
    \A i \in 1..Len(out_objs[p]) :
      IsSome(out_objs[p][i].motion) =>
        /\ Matches(p)[i] # 0
        /\ Get(out_objs[p][i].motion).from = PrevObjs(p)[Matches(p)[i]].lat
        /\ Get(out_objs[p][i].motion).dist_km <= 60

\* C19: in a re-run at most 5 minutes after the previous payload, on the
\* same detections, an object whose record in the previous payload has no
\* motion still has no motion and no forecast.
C19_RerunCreatesNoMotion ==
  \A p \in Procs :
    ( /\ Tracked(p) /\ entry = "storm" /\ IsSome(prev_payload[p])
      /\ IsSome(Get(prev_payload[p]).ts)
      /\ now - Get(Get(prev_payload[p]).ts) <= 5
      /\ Len(cur_raw[p]) = Len(PrevObjs(p))
      /\ \A i \in 1..Len(cur_raw[p]) : cur_raw[p][i].lat = PrevObjs(p)[i].lat )
    => \A i \in 1..Len(out_objs[p]) :
         \A j \in 1..Len(PrevObjs(p)) :
           (PrevObjs(p)[j].id = out_objs[p][i].id
            /\ IsNone(PrevObjs(p)[j].motion))
             => /\ IsNone(out_objs[p][i].motion)
                /\ IsNone(out_objs[p][i].forecast_30min)
                /\ IsNone(out_objs[p][i].forecast_60min)

\* =====================================================================
\* Boundary detection: compute_boundary_candidates and grid_boundary_field
\* (compute/boundaries.py), called in this order by
\* detect_and_render_boundaries (services/boundary.py).
\*
\* Stations lie on the parallel lat = 0 at whole-degree longitudes, so the
\* Euclidean norm of a coordinate difference is the absolute difference of
\* the longitudes.  Scores are kept in 1/ScoreScale of a unit per degree, so
\* that every ratio |dv|/dd and every median of ratios is an integer.
\* =====================================================================
ScoreColumns == {"dewpoint_c", "temp_c", "wind_dir_degrees"}

\* A cell of the station table: a number, a text that is not a number, or
\* nothing.
Num(v) == [k |-> "num", v |-> v]
Text == [k |-> "text", v |-> 0]
Missing == [k |-> "missing", v |-> 0]

\* pd.to_numeric(..., errors="coerce"): NaN (None) unless the cell is a number
to_numeric(c) == IF c.k = "num" THEN Some(c.v) ELSE None

\* _wrap_lon: keep -180..180
wrap_lon(lon) == ((lon + 180) % 360) - 180

\* the column the code takes the latitude / longitude from
lat_col(df) ==
  IF "lat" \in df.columns THEN Some("lat")
  ELSE IF "latitude" \in df.columns THEN Some("latitude") ELSE None
lon_col(df) ==
  IF "lon" \in df.columns THEN Some("lon")
  ELSE IF "longitude" \in df.columns THEN Some("longitude") ELSE None

\* df["lat"], df["lon"] coerced, the longitude wrapped (NaN stays NaN)
Coerce(r) ==
  LET lo == to_numeric(r.lon)
  IN  [r EXCEPT !.lat = to_numeric(r.lat),
                !.lon = IF IsNone(lo) THEN None ELSE Some(wrap_lon(Get(lo)))]

\* lines 74-76 applied to every row
CoerceRows(rows) == [i \in 1..Len(rows) |-> Coerce(rows[i])]

\* a dropna that takes the longitude 0 for a missing one as well
dropna_falsy_lon(rows) ==
  SelectSeq(rows, LAMBDA r : IsSome(r.lat) /\ IsSome(r.lon) /\ Get(r.lon) # 0)

\* df.dropna(subset=["lat","lon"]): row order kept
dropna(rows) ==
  SelectSeq(rows, LAMBDA r : IsSome(r.lat) /\ IsSome(r.lon))

\* np.linalg.norm(xy[j] - xy[i]) for stations of one parallel
Norm(rows, i, j) == Abs(Get(rows[i].lon) - Get(rows[j].lon))

\* The rows tree.query(xy, k) may return for station i: k stations none of
\* which is farther from i than a station left out.
KNearest(rows, i, k) ==
  {T \in SUBSET (1..Len(rows)) :
     /\ Cardinality(T) = k
     /\ \A j \in T : \A m \in (1..Len(rows)) \ T :
          Norm(rows, i, j) <= Norm(rows, i, m)}

\* idxs[i, 1:]: the returned stations without the first, a nearest one
NbrSets(rows, i, k) ==
  UNION {{T \ {f} : f \in {g \in T : \A j \in T :
                             Norm(rows, i, g) <= Norm(rows, i, j)}} :
         T \in KNearest(rows, i, k)}

\* the values of f over the index set S, in ascending order
RECURSIVE SortedVals(_, _)
SortedVals(S, f) ==
  IF S = {} THEN <<>>
  ELSE LET j == CHOOSE x \in S : \A y \in S : f[x] <= f[y]
       IN  <<f[j]>> \o SortedVals(S \ {j}, f)

\* np.median of a non-empty ascending sequence
Median(s) ==
  LET n == Len(s)
  IN  IF n % 2 = 1 THEN s[(n + 1) \div 2]
      ELSE (s[n \div 2] + s[n \div 2 + 1]) \div 2

\* |val[j] - val[i]| / dd, in 1/ScoreScale; val is the coerced column
GradRatio(rows, val, i, j) ==
  (ScoreScale * Abs(Get(val[j]) - Get(val[i]))) \div Norm(rows, i, j)

\* |((wd[j] - wd[i] + 180) % 360) - 180| / dd, in 1/ScoreScale
ShiftRatio(rows, val, i, j) ==
  (ScoreScale * Abs(((Get(val[j]) - Get(val[i]) + 180) % 360) - 180))
     \div Norm(rows, i, j)

\* m = isfinite(dv) & (dd > 0): the neighbours that enter the median
Valid(rows, val, i, nbr) ==
  {j \in nbr : IsSome(val[i]) /\ IsSome(val[j]) /\ Norm(rows, i, j) > 0}

\* scores[i] of _local_gradient_score (mode "grad") or _wind_shift_score
\* (mode "shift") for the neighbour set nbr; 0 when no neighbour is valid
ScoreAt(rows, val, i, nbr, mode) ==
  LET m == Valid(rows, val, i, nbr)
      ratio == [j \in m |-> IF mode = "grad" THEN GradRatio(rows, val, i, j)
                            ELSE ShiftRatio(rows, val, i, j)]
  IN  IF m = {} THEN 0 ELSE Median(SortedVals(m, ratio))

\* the sequences that take their i-th element from choices[i]
RECURSIVE Arrays(_, _)
Arrays(choices, i) ==
  IF i > Len(choices) THEN {<<>>}
  ELSE {<<c>> \o rest : c \in choices[i], rest \in Arrays(choices, i + 1)}

\* The score arrays the scorer can return for at least two stations: one
\* score per station, each taken over one of the neighbour sets the tree may
\* report.
ScoreArrays(rows, val, mode) ==
  LET n == Len(rows)
      k == Min(KNbr, n)
      choices == [i \in 1..n |->
                    {ScoreAt(rows, val, i, nbr, mode) :
                       nbr \in NbrSets(rows, i, k)}]
  IN  Arrays(choices, 1)

\* How the scorer ends for n stations: with k = min(6, 1) = 1 the tree
\* returns one-dimensional arrays and idxs[i, 1:] raises IndexError; with no
\* station k = 0, which the tree rejects or answers with empty arrays
\* depending on the library version.
ScorerOutcomes(n) ==
  IF n = 0 THEN {"ValueError", "ok"}
  ELSE IF n = 1 THEN {"IndexError"}
  ELSE {"ok"}

\* np.argsort(score)[::-1][:top_n]: the top_n stations by non-increasing
\* score, none left out scoring higher than one taken; the order of equal
\* scores is the sorting routine's
TopIdx(score, n_top) ==
  LET n == Len(score)
      m == Min(n_top, n)
  IN  {p \in [1..m -> 1..n] :
         /\ \A a, b \in 1..m : a # b => p[a] # p[b]
         /\ \A a, b \in 1..m : a < b => score[p[a]] >= score[p[b]]
         /\ \A a \in 1..m : \A j \in 1..n :
              (\A b \in 1..m : p[b] # j) => score[j] <= score[p[a]]}

\* the stations of idx whatever their score
KindCandidatesUnfiltered(rows, score, idx, n_top, kind) ==
  [a \in 1..Len(idx) |->
     [lat |-> Get(rows[idx[a]].lat), lon |-> Get(rows[idx[a]].lon),
      score |-> score[idx[a]], kind |-> kind]]

\* lines 98-101: the stations of idx = argsort(score)[::-1][:top_n] with a
\* score > 0
KindCandidates(rows, score, idx, n_top, kind) ==
  LET cand(i) == [lat |-> Get(rows[i].lat), lon |-> Get(rows[i].lon),
                  score |-> score[i], kind |-> kind]
  IN  [a \in 1..Len(SelectSeq(idx, LAMBDA i : score[i] > 0)) |->
         cand(SelectSeq(idx, LAMBDA i : score[i] > 0)[a])]

\* sorted(candidates, key=score, reverse=True): stable, equal scores keep
\* their order
RECURSIVE InsertCand(_, _)
InsertCand(x, sorted) ==
  IF sorted = <<>> THEN <<x>>
  ELSE IF Head(sorted).score >= x.score
       THEN <<Head(sorted)>> \o InsertCand(x, Tail(sorted))
       ELSE <<x>> \o sorted

RECURSIVE SortCands(_, _)
SortCands(seq, acc) ==
  IF seq = <<>> THEN acc
  ELSE SortCands(Tail(seq), InsertCand(Head(seq), acc))

\* the coerced column col of the kept rows
Column(rows, col) == [i \in 1..Len(rows) |-> to_numeric(rows[i][col])]

\* the scored table row: lat, lon and the score columns (0 where the table
\* has no such column, see bres.columns)
ScoredRow(r, dp, tt, ws) ==
  [lat |-> Get(r.lat), lon |-> Get(r.lon),
   dewpoint_grad |-> dp, temp_grad |-> tt, windshift |-> ws]

Zeros(n) == [i \in 1..n |-> 0]

Raised(exc) == [outcome |-> exc, columns |-> {}, df |-> <<>>,
                candidates |-> <<>>]

\* the score column each table column yields
ScoreName ==
  [c \in ScoreColumns |->
     IF c = "dewpoint_c" THEN "dewpoint_grad"
     ELSE IF c = "temp_c" THEN "temp_grad" ELSE "windshift"]

\* lines 91-124 once the three score arrays and argsort orders are known
Scored(df, rows, n_top, dp, tt, ws, p1, p2, p3) ==
  LET has(c) == c \in df.columns
      c1 == IF has("dewpoint_c")
            THEN KindCandidates(rows, dp, p1, n_top, "dewpoint") ELSE <<>>
      c2 == IF has("temp_c")
            THEN KindCandidates(rows, tt, p2, n_top, "temp") ELSE <<>>
      c3 == IF has("wind_dir_degrees")
            THEN KindCandidates(rows, ws, p3, n_top, "windshift") ELSE <<>>
      all == SortCands(c1 \o c2 \o c3, <<>>)
  IN  [outcome |-> "ok",
       columns |-> {ScoreName[c] : c \in ScoreColumns \cap df.columns},
       df |-> [i \in 1..Len(rows) |->
                 ScoredRow(rows[i], dp[i], tt[i], ws[i])],
       candidates |-> SubSeq(all, 1, Min(n_top, Len(all)))]

\* compute_boundary_candidates(metar_df, top_n): every value the call can
\* produce
compute_boundary_candidates(df, n_top) ==
  IF IsNone(lat_col(df)) \/ IsNone(lon_col(df)) THEN {Raised("KeyError")}
  ELSE
    LET rows == dropna(CoerceRows(df.rows))
        n == Len(rows)
        has(c) == c \in df.columns
        arrays(c, mode) ==
          IF has(c) /\ n >= 2 THEN ScoreArrays(rows, Column(rows, c), mode)
          ELSE {Zeros(n)}
        orders(c, sc) == IF has(c) THEN TopIdx(sc, n_top) ELSE {<<>>}
    IN  IF ScoreColumns \cap df.columns # {} /\ n < 2
        THEN {IF o = "ok"
              THEN Scored(df, rows, n_top, <<>>, <<>>, <<>>, <<>>, <<>>, <<>>)
              ELSE Raised(o) : o \in ScorerOutcomes(n)}
        ELSE UNION {{Scored(df, rows, n_top, dp, tt, ws, p1, p2, p3) :
                       p1 \in orders("dewpoint_c", dp),
                       p2 \in orders("temp_c", tt),
                       p3 \in orders("wind_dir_degrees", ws)} :
                    dp \in arrays("dewpoint_c", "grad"),
                    tt \in arrays("temp_c", "grad"),
                    ws \in arrays("wind_dir_degrees", "shift")}

\* ------------------------------------------------------ grid_boundary_field
\* The grid: np.arange over the bounding box at whole degrees (res_deg = 1),
\* longitudes 0..BoxLonMax, two rows of latitude lat_min and lat_min + 1.
GridCells(lat_min) == (0..BoxLonMax) \X {lat_min, lat_min + 1}

\* the cells in raster order (row by row), and the place of a cell in it
NCells == 2 * (BoxLonMax + 1)
CellAt(lat_min, i) ==
  <<(i - 1) % (BoxLonMax + 1), lat_min + (i - 1) \div (BoxLonMax + 1)>>
CellIndex(lat_min, cell) ==
  (cell[2] - lat_min) * (BoxLonMax + 1) + cell[1] + 1

\* station_score = nan_to_num(s).max(axis=1) over the score columns present
station_score(res, i) ==
  LET r == res.df[i]
      vals == {r[c] : c \in res.columns}
  IN  CHOOSE m \in vals : \A v \in vals : v <= m

\* tree.query_ball_point([lon, lat], r=rad): the stations within rad degrees
InBall(res, cell) ==
  {i \in 1..Len(res.df) :
     (res.df[i].lon - cell[1]) * (res.df[i].lon - cell[1])
       + (res.df[i].lat - cell[2]) * (res.df[i].lat - cell[2])
     <= BallRadius * BallRadius}

\* lines 153-155 for one cell: the largest station score in reach, else 0
RawCell(res, cell) ==
  LET scores == {station_score(res, i) : i \in InBall(res, cell)}
  IN  IF scores = {} THEN 0
      ELSE CHOOSE m \in scores : \A v \in scores : v <= m

\* lines 151-155: the raw grid, cell by cell in raster order
RECURSIVE RawGrid(_, _, _)
RawGrid(res, lat_min, i) ==
  IF i > NCells THEN <<>>
  ELSE <<RawCell(res, CellAt(lat_min, i))>> \o RawGrid(res, lat_min, i + 1)

RECURSIVE InsertAsc(_, _)
InsertAsc(x, sorted) ==
  IF sorted = <<>> THEN <<x>>
  ELSE IF Head(sorted) <= x
       THEN <<Head(sorted)>> \o InsertAsc(x, Tail(sorted))
       ELSE <<x>> \o sorted

RECURSIVE SortAsc(_, _)
SortAsc(seq, acc) ==
  IF seq = <<>> THEN acc
  ELSE SortAsc(Tail(seq), InsertAsc(Head(seq), acc))

\* np.percentile(score, 95) over all cells, linear interpolation between the
\* two order statistics around position 0.95 * (N - 1).  The result is a
\* fraction <<numerator, 20>> of the score unit.
Percentile95(raw) ==
  LET s == SortAsc(raw, <<>>)
      N == Len(s)
      lo == (19 * (N - 1)) \div 20
      r == (19 * (N - 1)) % 20
  IN  IF r = 0 THEN <<20 * s[lo + 1], 20>>
      ELSE <<(20 - r) * s[lo + 1] + r * s[lo + 2], 20>>

\* lines 157-158 without the second guard
p95_unguarded(raw) ==
  IF \E i \in 1..Len(raw) : raw[i] > 0 THEN Percentile95(raw)
  ELSE <<ScoreScale, 1>>

\* lines 157-158: the divisor, a fraction of the score unit; 1.0 when no cell
\* is positive or the percentile is not positive
p95(raw) ==
  LET p == IF \E i \in 1..Len(raw) : raw[i] > 0 THEN Percentile95(raw)
           ELSE <<ScoreScale, 1>>
  IN  IF p[1] <= 0 THEN <<ScoreScale, 1>> ELSE p

\* np.clip(score / p95, 0.0, 1.0) of one cell, as a fraction <<num, den>>;
\* <<0, 0>> is NaN (0/0), and x/0 with x > 0 is inf, clipped to 1
Normalise(x, p) ==
  IF p[1] = 0 THEN (IF x = 0 THEN <<0, 0>> ELSE <<1, 1>>)
  ELSE IF x * p[2] >= p[1] THEN <<1, 1>>
  ELSE IF x <= 0 THEN <<0, 1>>
  ELSE <<x * p[2], p[1]>>

\* lines 156-159 applied to the raw grid
NormaliseGrid(raw, p) == [i \in 1..Len(raw) |-> Normalise(raw[i], p)]

\* grid_boundary_field(df_scored, bbox, res_deg): the score of every cell
grid_boundary_field(res, lat_min) ==
  IF res.columns = {} THEN [cell \in GridCells(lat_min) |-> <<0, 1>>]
  ELSE LET raw == RawGrid(res, lat_min, 1)
           norm == NormaliseGrid(raw, p95(raw))
       IN  [cell \in GridCells(lat_min) |-> norm[CellIndex(lat_min, cell)]]

\* ------------------------------------------------------------ SpecBoundary
\* The station tables: which latitude / longitude column the table has, which
\* of the observation columns, and the rows.
KeyColumnSets == {{"lat", "lon"}, {"latitude", "longitude"},
                  {"lat"}, {"longitude"}, {}}
ObsColumnSets == {{}, {"dewpoint_c"}, {"temp_c", "wind_dir_degrees"}}
LineLons == <<-1, 0, 1, 2, 3, 4, 5>>
StationLons == {-1, 0, 2}
TopNs == {2}
StationCounts == {0, 1, 2, 3}
BoxLatMins == {0, 1}

\* latitude and longitude cells of a row: a station on the parallel 0, or a
\* row whose latitude is not a number, or whose longitude is empty; a table
\* without the column has no cell
Places(cols) ==
  LET has_lat == "lat" \in cols \/ "latitude" \in cols
      has_lon == "lon" \in cols \/ "longitude" \in cols
      ok == {<<Num(0), Num(x)>> : x \in StationLons}
              \cup {<<Text, Num(0)>>, <<Num(0), Missing>>}
  IN  {<<IF has_lat THEN p[1] ELSE Missing,
         IF has_lon THEN p[2] ELSE Missing>> : p \in ok}

ObsCells(col, cols) ==
  IF col \notin cols THEN {Missing}
  ELSE IF col = "dewpoint_c" THEN {Num(0), Num(6), Missing}
  ELSE IF col = "temp_c" THEN {Num(0), Num(12)}
  ELSE {Num(10), Num(350)}

StationRows(cols) ==
  {[lat |-> p[1], lon |-> p[2], dewpoint_c |-> a, temp_c |-> b,
    wind_dir_degrees |-> c] :
     p \in Places(cols), a \in ObsCells("dewpoint_c", cols),
     b \in ObsCells("temp_c", cols), c \in ObsCells("wind_dir_degrees", cols)}

\* the column sets: two observation columns only next to lat and lon
ColumnSets ==
  {kc \cup oc : kc \in KeyColumnSets, oc \in ObsColumnSets}
  \ {cs \in SUBSET ({"lat", "lon", "latitude", "longitude"} \cup ScoreColumns) :
       "temp_c" \in cs /\ ~({"lat", "lon"} \subseteq cs)}

\* a station of every longitude of LineLons, with a dewpoint or a wind
\* direction each
LineTables ==
  {[columns |-> {"lat", "lon", c},
    rows |-> [i \in 1..Len(LineLons) |->
                [lat |-> Num(0), lon |-> Num(LineLons[i]),
                 dewpoint_c |-> IF c = "dewpoint_c" THEN Num(6 * v[i])
                                ELSE Missing,
                 temp_c |-> Missing,
                 wind_dir_degrees |-> IF c = "wind_dir_degrees"
                                      THEN Num((350 + 20 * v[i]) % 360)
                                      ELSE Missing]]] :
     c \in {"dewpoint_c", "wind_dir_degrees"},
     v \in [1..Len(LineLons) -> {0, 1}]}

StationTables ==
  LineTables
  \cup UNION {{[columns |-> cols, rows |-> rows] :
                 rows \in UNION {[1..n -> StationRows(cols)] :
                                  n \in StationCounts}} :
              cols \in ColumnSets}

InitBoundary ==
  /\ TrackIdle /\ DetectIdle /\ ImpactIdle /\ MotionIdle
  /\ metar_df \in StationTables
  /\ top_n \in TopNs
  /\ bres = <<>>
  /\ bgrid = <<>>
  /\ bpc = "input"

\* scored, candidates = compute_boundary_candidates(metar_box, top_n), the
\* exception leaving the handler when the call raises
ComputeCandidates ==
  /\ bpc = "input"
  /\ \E res \in compute_boundary_candidates(metar_df, top_n) :
       /\ bres' = res
       /\ bpc' = IF res.outcome = "ok" THEN "scored" ELSE "raised"
  /\ UNCHANGED <<metar_df, top_n, bgrid>>
  /\ UNCHANGED <<trackVars, detectVars, impactVars, motionVars>>

\* lons_g, lats_g, bfield = grid_boundary_field(scored, bbox, res_deg)
GridField ==
  /\ bpc = "scored"
  /\ \E lat_min \in BoxLatMins :
       bgrid' = grid_boundary_field(bres, lat_min)
  /\ bpc' = "done"
  /\ UNCHANGED <<metar_df, top_n, bres>>
  /\ UNCHANGED <<trackVars, detectVars, impactVars, motionVars>>

NextBoundary == ComputeCandidates \/ GridField

SpecBoundary == InitBoundary /\ [][NextBoundary]_vars

\* ------------------------------------------------- claims on SpecBoundary
\* the rows of the station table whose latitude and longitude are numbers
ValidStations ==
  SelectSeq(metar_df.rows, LAMBDA r : r.lat.k = "num" /\ r.lon.k = "num")

HasLatColumn == {"lat", "latitude"} \cap metar_df.columns # {}
HasLonColumn == {"lon", "longitude"} \cap metar_df.columns # {}

\* C13: compute_boundary_candidates raises KeyError, returning no candidates
\* and no geometry, when the station table has no latitude or no longitude
\* column; with both columns it never raises KeyError, the stations whose
\* latitude or longitude is missing or unparseable are dropped: the scored
\* table holds exactly the other stations, in order and at their own
\* coordinates, and the call ends as it can end for the table without the
\* dropped rows.
C13_MissingColumnRaisesBadRowsDropped ==
  bpc \in {"scored", "raised"} =>
    /\ (~HasLatColumn \/ ~HasLonColumn) =>
         /\ bpc = "raised"
         /\ bres.outcome = "KeyError"
         /\ bres.candidates = <<>> /\ bres.df = <<>>
    /\ (HasLatColumn /\ HasLonColumn) =>
         /\ bres.outcome # "KeyError"
         /\ bres \in compute_boundary_candidates(
                       [metar_df EXCEPT !.rows = ValidStations], top_n)
         /\ bres.outcome = "ok" =>
              /\ Len(bres.df) = Len(ValidStations)
              /\ \A i \in 1..Len(bres.df) :
                   /\ bres.df[i].lat = ValidStations[i].lat.v
                   /\ bres.df[i].lon = ValidStations[i].lon.v
              /\ \A i \in 1..Len(bres.candidates) :
                   \E j \in 1..Len(ValidStations) :
                     /\ bres.candidates[i].lat = ValidStations[j].lat.v
                     /\ bres.candidates[i].lon = ValidStations[j].lon.v

\* C13 witness: a table with both columns, one row with an unparseable
\* latitude and two stations with numbers; the call returned the two
\* stations scored and a candidate.
C13_Witness ==
  /\ bpc = "scored"
  /\ HasLatColumn /\ HasLonColumn
  /\ \E i \in 1..Len(metar_df.rows) : metar_df.rows[i].lat.k = "text"
  /\ Len(metar_df.rows) = 3
  /\ Len(bres.df) = 2
  /\ bres.candidates # <<>>

\* the scores of scored row i over the score columns present
RowScores(i) == {bres.df[i][c] : c \in bres.columns}

\* C14: every cell of the grid grid_boundary_field returns is a number in
\* [0,1] (never NaN or inf from a division by zero), and the grid is zero
\* everywhere when the scored table has no score column or every station
\* score is zero.
C14_GridWithinUnitInterval ==
  bpc = "done" =>
    /\ \A cell \in DOMAIN bgrid :
         /\ bgrid[cell][2] > 0
         /\ 0 <= bgrid[cell][1]
         /\ bgrid[cell][1] <= bgrid[cell][2]
    /\ (bres.columns = {}
          \/ \A i \in 1..Len(bres.df) : RowScores(i) = {0}) =>
         \A cell \in DOMAIN bgrid : bgrid[cell][1] = 0

\* C14 witness: a grid with a cell strictly between 0 and 1, a cell at 1
\* and a cell at 0.
C14_Witness ==
  /\ bpc = "done"
  /\ \E cell \in DOMAIN bgrid :
       0 < bgrid[cell][1] /\ bgrid[cell][1] < bgrid[cell][2]
  /\ \E cell \in DOMAIN bgrid : bgrid[cell][1] = bgrid[cell][2]
  /\ \E cell \in DOMAIN bgrid : bgrid[cell][1] = 0

\* C21: an object with a same-ID predecessor is 'high' iff the distance
\* between the two centroids is <= 30 km and 15 <= dt <= 90, else 'med' iff
\* the distance is <= 60 km and 10 <= dt <= 110, else 'low', dt being the
\* clamped elapsed minutes; an object without a predecessor is 'low'.
C21_ConfidenceBands ==
  mpc = "done" =>
    \A i \in DOMAIN m_out :
      LET j == SameIdPred(m_out[i].id)
          c == m_out[i].motion_confidence
      IN  /\ j = 0 => c = "low"
          /\ j # 0 =>
               LET d == Abs(m_out[i].lat - MPrevObjs[j].lat)
                   dt == ClampedDt
                   hi == d <= 30 /\ 15 <= dt /\ dt <= 90
                   md == ~hi /\ d <= 60 /\ 10 <= dt /\ dt <= 110
               IN  /\ (c = "high") <=> hi
                   /\ (c = "med") <=> md
                   /\ (c = "low") <=> (~hi /\ ~md)

\* C21 witness: 100 minutes after the previous payload an object 30 km from
\* its predecessor is 'med': near enough for 'high', but dt is above 90.
C21_Witness ==
  /\ mpc = "done" /\ IsSome(m_prev) /\ Get(m_prev).ts = Some(100)
  /\ \E i \in DOMAIN m_out :
       /\ SameIdPred(m_out[i].id) # 0
       /\ Abs(m_out[i].lat - MPrevObjs[SameIdPred(m_out[i].id)].lat) = 30
       /\ m_out[i].motion_confidence = "med"

\* C22: in the objects run_storm_detection emits, motion, forecast_30min,
\* forecast_60min, cone_30_km and cone_60_km are all None or all present;
\* an object with a same-ID predecessor has them all, an object without has
\* none.  (A present motion always carries a numeric speed_kmh and
\* bearing_deg: dt is positive on every path.)
C22_MotionFieldsAllOrNothing ==
  mpc = "done" =>
    \A i \in DOMAIN m_out :
      LET o == m_out[i]
          nones == {IsNone(o.motion), IsNone(o.forecast_30min),
                    IsNone(o.forecast_60min), IsNone(o.cone_30_km),
                    IsNone(o.cone_60_km)}
      IN  /\ Cardinality(nones) = 1
          /\ IsSome(o.motion) <=> SameIdPred(o.id) # 0
          /\ IsSome(o.motion) =>
               /\ Get(o.motion).speed_kmh \in Nat
               /\ Get(o.motion).bearing_deg \in 0..360

\* C22 witness: a payload with two objects, one with all five fields and
\* one with none of them.
C22_Witness ==
  /\ mpc = "done"
  /\ \E i, k \in DOMAIN m_out :
       /\ IsSome(m_out[i].motion) /\ IsSome(m_out[i].forecast_30min)
       /\ IsSome(m_out[i].forecast_60min) /\ IsSome(m_out[i].cone_30_km)
       /\ IsSome(m_out[i].cone_60_km)
       /\ IsNone(m_out[k].motion) /\ IsNone(m_out[k].forecast_30min)
       /\ IsNone(m_out[k].forecast_60min) /\ IsNone(m_out[k].cone_30_km)
       /\ IsNone(m_out[k].cone_60_km)

\* C23: the list detect_objects returns is sorted descending by (max value,
\* area): of two consecutive objects the first has the greater maximum, or
\* the same maximum and an area at least as large; the tracker takes the
\* objects in this order (the i-th gets its ID from position i) and they are
\* persisted in this order.
C23_SortedByMaxThenArea ==
  /\ dpc \in {"done", "persisted"} =>
       \A i \in 1..(Len(det_objs) - 1) :
         \/ det_objs[i].vmax > det_objs[i + 1].vmax
         \/ /\ det_objs[i].vmax = det_objs[i + 1].vmax
            /\ det_objs[i].area >= det_objs[i + 1].area
  /\ dpc = "persisted" =>
       /\ Len(det_tracked) = Len(det_objs)
       /\ \A i \in 1..Len(det_objs) :
            /\ det_tracked[i].lat = det_objs[i].lat
            /\ det_tracked[i].area = det_objs[i].area
            /\ det_tracked[i].vmax = det_objs[i].vmax
            /\ det_tracked[i].id = IdS(i)

\* C23 witness: two objects with equal maxima persisted, the larger region
\* first although the smaller one comes first in raster order.
C23_Witness ==
  /\ dpc = "persisted"
  /\ Len(det_objs) = 2
  /\ det_objs[1].vmax = det_objs[2].vmax
  /\ det_objs[1].area > det_objs[2].area
  /\ \E x \in det_objs[1].cells : \E y \in det_objs[2].cells :
       RasterIdx(y) < RasterIdx(x) /\ \A z \in det_objs[1].cells :
                                        RasterIdx(y) < RasterIdx(z)
  /\ det_tracked[1].area > det_tracked[2].area

\* the cells of the objects returned
ObjCells(i) == det_objs[i].cells

\* two cells that touch at a corner only
Diagonal(x, y) == Abs(x[1] - y[1]) = 1 /\ Abs(x[2] - y[2]) = 1

\* C24: regions are 4-connected.  Two qualifying cells lie in the same
\* returned object only if a chain of horizontally or vertically adjacent
\* qualifying cells links them, and two linked cells are never split over
\* two objects (they are in one object, or their region was dropped as
\* smaller than min_pixels); two qualifying cells that touch diagonally and
\* have no such chain are in two different objects when min_pixels = 1.
C24_FourConnected ==
  dpc = "done" =>
    \A x, y \in Qualifying :
      /\ (\E i \in 1..Len(det_objs) : x \in ObjCells(i) /\ y \in ObjCells(i))
           => y \in Reach({x})
      /\ y \in Reach({x}) =>
           \A i \in 1..Len(det_objs) : x \in ObjCells(i) <=> y \in ObjCells(i)
      /\ (y \in Reach({x}) /\ Cardinality(Reach({x})) >= min_pixels) =>
           \E i \in 1..Len(det_objs) : x \in ObjCells(i) /\ y \in ObjCells(i)
      /\ (Diagonal(x, y) /\ y \notin Reach({x}) /\ min_pixels = 1) =>
           \E i, k \in 1..Len(det_objs) :
             i # k /\ x \in ObjCells(i) /\ y \in ObjCells(k)

\* C24 witness: two qualifying cells touching at a corner only, returned as
\* two objects, one of them a region of two cells.
C24_Witness ==
  /\ dpc = "done" /\ min_pixels = 1
  /\ Len(det_objs) = 2
  /\ \E x \in ObjCells(1) : \E y \in ObjCells(2) : Diagonal(x, y)
  /\ Cardinality(ObjCells(1)) + Cardinality(ObjCells(2)) = 3

\* C25: every hit of an object whose motion carries a speed, a speed of 0
\* included, carries that speed in speed_kmh and an eta_min that is not
\* null (for a positive speed: the straight-line distance from the object
\* to the target divided by the speed, in minutes); eta_min is null only
\* when the object has no motion.
C25_KnownSpeedGivesEta ==
  ipc = "done" =>
    \A k \in DOMAIN hits :
      \E q \in NearPairs :
        LET s == storms[q[1]]
            t == targets[q[2]]
        IN  /\ HitFor(k, q)
            /\ IsSome(s.motion) =>
                 /\ hits[k].speed_kmh = Some(Get(s.motion).speed_kmh)
                 /\ IsSome(hits[k].eta_min)
                 /\ Get(s.motion).speed_kmh > 0 =>
                      hits[k].eta_min =
                        Some(RoundDiv(impact_haversine(Get(s.lat), Get(s.lon),
                                                       Get(t.lat), Get(t.lon))
                                      * 6, Get(s.motion).speed_kmh))
            /\ IsNone(s.motion) => IsNone(hits[k].eta_min)

\* the smoothed speed of emitted object i, in 1/1000 km/h, unrounded: the
\* raw speed when its predecessor po carries no motion, else
\* 0.7 * prev + 0.3 * new
SmoothedSpeed(i, po) ==
  LET raw == RawSpeed(po.lat, m_out[i].lat)
  IN  IF IsNone(po.motion) THEN raw
      ELSE LET prev == Get(po.motion).speed_kmh * 100
               new == IF ImmediateRerun THEN prev ELSE raw
           IN  (70 * prev + 30 * new) \div 100

\* 400000 times f/100 * (base + w/10 * (size_term + speed_term)) in 1/10 km,
\* for f in percent, area in km2 (a perfect square), speed in 1/1000 km/h
ConeRef(area, speed, f, base, w) ==
  f * (base * 40000
       + w * (40 * Min(15 * Isqrt(area), 4000) + Min(speed, 240000)))

Widening(conf) ==
  IF conf = "med" THEN 115 ELSE IF conf = "low" THEN 135 ELSE 100

\* C30: for every object with a forecast, cone_30_km and cone_60_km are,
\* rounded to 0.1 km, 20 + 0.5 * (size_term + speed_term) and
\* 35 + 0.8 * (size_term + speed_term), size_term = min(sqrt(area) * 0.15,
\* 40), speed_term = min(smoothed speed * 0.25, 60), times 1.15 at 'med' and
\* 1.35 at 'low'; so cone_60 > cone_30 >= 20, and the cone emitted is never
\* narrower than what the same area and speed give at a higher confidence.
C30_ConeFormula ==
  mpc = "done" =>
    \A i \in DOMAIN m_out :
      IsSome(m_out[i].forecast_30min) =>
        LET o == m_out[i]
            po == MPrevObjs[SameIdPred(o.id)]
            v == SmoothedSpeed(i, po)
            f == Widening(o.motion_confidence)
            c30 == Get(o.cone_30_km)
            c60 == Get(o.cone_60_km)
        IN  /\ 2 * Abs(400000 * c30 - ConeRef(o.area, v, f, 20, 5)) <= 400000
            /\ 2 * Abs(400000 * c60 - ConeRef(o.area, v, f, 35, 8)) <= 400000
            /\ c60 > c30 /\ c30 >= 200
            /\ \A g \in {100, 115, 135} :
                 g <= f => /\ 2 * (ConeRef(o.area, v, g, 20, 5) - 400000 * c30)
                                <= 400000
                           /\ 2 * (ConeRef(o.area, v, g, 35, 8) - 400000 * c60)
                                <= 400000

\* C30 witness: within 5 minutes of the previous payload a large object
\* (size term capped at 40) 90 km from its predecessor (1080 km/h, speed
\* term capped at 60) has, at 'low' confidence, the cones 94.5 and 155.2 km;
\* a small one that did not move has 28.0 and 48.9 km.
C30_Witness ==
  /\ mpc = "done"
  /\ \E i \in DOMAIN m_out :
       /\ m_out[i].area = 90000 /\ m_out[i].motion_confidence = "low"
       /\ IsSome(m_out[i].motion) /\ Get(m_out[i].motion).speed_kmh = 10800
       /\ m_out[i].cone_30_km = Some(945) /\ m_out[i].cone_60_km = Some(1552)
  /\ \E i \in DOMAIN m_out :
       /\ m_out[i].area = 100 /\ m_out[i].motion_confidence = "low"
       /\ IsSome(m_out[i].motion) /\ Get(m_out[i].motion).speed_kmh = 0
       /\ m_out[i].cone_30_km = Some(280) /\ m_out[i].cone_60_km = Some(489)

\* ---------------------------------------------------------------- C26
\* the kind a candidate of a score column carries
KindOfScore ==
  [c \in {"dewpoint_grad", "temp_grad", "windshift"} |->
     IF c = "dewpoint_grad" THEN "dewpoint"
     ELSE IF c = "temp_grad" THEN "temp" ELSE "windshift"]

\* the (station, variable) pairs of the scored table with a positive score
PositivePairs ==
  {p \in (1..Len(bres.df)) \X bres.columns : bres.df[p[1]][p[2]] > 0}

PairScore(p) == bres.df[p[1]][p[2]]

\* the candidate a (station, variable) pair yields
PairCandidate(p) ==
  [lat |-> bres.df[p[1]].lat, lon |-> bres.df[p[1]].lon,
   score |-> PairScore(p), kind |-> KindOfScore[p[2]]]

\* C26: compute_boundary_candidates returns at most top_n candidates, in
\* non-increasing score order, each with a score > 0 and a kind among
\* dewpoint, temp and windshift; each candidate is a (station, variable)
\* pair of the scored table with a positive score, no pair taken twice, and
\* they are the top_n highest of those pairs: for every score v, the
\* candidates scoring at least v are as many as the positive pairs scoring
\* at least v, up to top_n.
C26_TopNPositivePairs ==
  bpc \in {"scored", "done"} =>
    LET c == bres.candidates
        n == Len(c)
    IN  /\ n <= top_n
        /\ \A a, b \in 1..n : a < b => c[a].score >= c[b].score
        /\ \A a \in 1..n :
             /\ c[a].score > 0
             /\ c[a].kind \in {"dewpoint", "temp", "windshift"}
             /\ Cardinality({b \in 1..n : c[b] = c[a]})
                  <= Cardinality({p \in PositivePairs :
                                    PairCandidate(p) = c[a]})
        /\ \A q \in PositivePairs :
             Cardinality({a \in 1..n : c[a].score >= PairScore(q)})
               = Min(top_n, Cardinality({p \in PositivePairs :
                                           PairScore(p) >= PairScore(q)}))

\* C26 witness: a table with two variables and more positive (station,
\* variable) pairs than top_n; the top_n candidates returned are of two
\* kinds, and a positive pair of each variable was left out.
C26_Witness ==
  /\ bpc = "scored"
  /\ Cardinality(bres.columns) = 2
  /\ Len(bres.candidates) = top_n
  /\ \E a, b \in 1..Len(bres.candidates) :
       bres.candidates[a].kind # bres.candidates[b].kind
  /\ \A col \in bres.columns :
       \E p \in PositivePairs :
         /\ p[2] = col
         /\ \A a \in 1..Len(bres.candidates) :
              bres.candidates[a] # PairCandidate(p)

\* ---------------------------------------------------------------- C27
\* the stations the scorers see: coerced, rows without a position dropped
ScoredStations == dropna(CoerceRows(metar_df.rows))

DistinctStations ==
  \A i, j \in 1..Len(ScoredStations) :
    i # j => Norm(ScoredStations, i, j) > 0

\* the sets of k stations other than i, none farther from i than a station
\* other than i left out
NearestOthers(rows, i, k) ==
  {T \in SUBSET ((1..Len(rows)) \ {i}) :
     /\ Cardinality(T) = k
     /\ \A j \in T : \A m \in ((1..Len(rows)) \ {i}) \ T :
          Norm(rows, i, j) <= Norm(rows, i, m)}

\* C27: with k = 6 and at least 7 distinct stations, each station's
\* dewpoint and temperature gradient score and its wind-shift score is the
\* median over its 6 nearest other stations.
C27_MedianOverSixOthers ==
  (bpc = "scored" /\ Len(ScoredStations) > KNbr /\ DistinctStations) =>
    \A c \in ScoreColumns \cap metar_df.columns :
      \A i \in 1..Len(ScoredStations) :
        \E T \in NearestOthers(ScoredStations, i, KNbr) :
          bres.df[i][ScoreName[c]]
            = ScoreAt(ScoredStations, Column(ScoredStations, c), i, T,
                      IF c = "wind_dir_degrees" THEN "shift" ELSE "grad")

\* what the scorers compute: the median over the 5 nearest other stations
C27_MedianOverFiveOthers ==
  (bpc = "scored" /\ Len(ScoredStations) > KNbr /\ DistinctStations) =>
    \A c \in ScoreColumns \cap metar_df.columns :
      \A i \in 1..Len(ScoredStations) :
        \E T \in NearestOthers(ScoredStations, i, KNbr - 1) :
          bres.df[i][ScoreName[c]]
            = ScoreAt(ScoredStations, Column(ScoredStations, c), i, T,
                      IF c = "wind_dir_degrees" THEN "shift" ELSE "grad")

\* ---------------------------------------------------------------- C28
\* station i has no neighbour at a distance > 0 with a finite difference in
\* column c
NoValidNeighbour(c, i) ==
  Valid(ScoredStations, Column(ScoredStations, c), i,
        (1..Len(ScoredStations)) \ {i}) = {}

\* the scorers returned, one score per station, 0 where no neighbour is valid
ScorersReturned ==
  /\ bres.outcome = "ok"
  /\ Len(bres.df) = Len(ScoredStations)
  /\ \A c \in ScoreColumns \cap metar_df.columns :
       \A i \in 1..Len(ScoredStations) :
         NoValidNeighbour(c, i) => bres.df[i][ScoreName[c]] = 0

\* C28: for any set of one or more stations, a single station, coincident
\* stations and stations without a value included, the gradient and
\* wind-shift scorers return without raising one score per station, 0 for a
\* station with no valid neighbour.
C28_ScorersNeverRaise ==
  (bpc \in {"scored", "raised"} /\ HasLatColumn /\ HasLonColumn
     /\ Len(ScoredStations) >= 1) => ScorersReturned

\* the same for two or more stations
C28_ScorersReturnForTwoOrMore ==
  (bpc \in {"scored", "raised"} /\ HasLatColumn /\ HasLonColumn
     /\ Len(ScoredStations) >= 2) => ScorersReturned

\* ---------------------------------------------------------------- C29
\* the southern latitude of the grid in bgrid
GridLatMin ==
  CHOOSE y \in BoxLatMins : DOMAIN bgrid = GridCells(y)

\* the 95th percentile of the non-zero raw scores, 1.0 when there is none
NonZeroP95(raw) ==
  LET nz == SelectSeq(raw, LAMBDA x : x > 0)
  IN  IF nz = <<>> THEN <<ScoreScale, 1>> ELSE Percentile95(nz)

\* the value a of a cell with raw score x is x / p clipped to [0,1]
IsScaledBy(a, x, p) ==
  LET b == Normalise(x, p)
  IN  IF a \in {<<0, 1>>, <<1, 1>>} \/ b \in {<<0, 1>>, <<1, 1>>}
      THEN a = b
      ELSE (a[1] \div x) * b[2] = (b[1] \div x) * a[2]

\* C29: every cell of the grid is its raw score divided by the 95th
\* percentile of the non-zero raw scores (1.0 when no raw score is
\* positive), clipped to [0,1]; cells with raw score zero do not enter the
\* percentile.
C29_ScaledByNonZeroPercentile ==
  (bpc = "done" /\ bres.columns # {}) =>
    LET raw == RawGrid(bres, GridLatMin, 1)
        p == NonZeroP95(raw)
    IN  \A i \in 1..NCells :
          IsScaledBy(bgrid[CellAt(GridLatMin, i)], raw[i], p)

\* what the code computes: the percentile is taken over every cell, zero
\* cells included, and a percentile of 0 is replaced by 1.0
C29_ScaledByAllCellsPercentile ==
  (bpc = "done" /\ bres.columns # {}) =>
    LET raw == RawGrid(bres, GridLatMin, 1)
        all == Percentile95(raw)
        p == IF all[1] <= 0 THEN <<ScoreScale, 1>> ELSE all
    IN  \A i \in 1..NCells :
          IsScaledBy(bgrid[CellAt(GridLatMin, i)], raw[i], p)

====
